---------------------------- MODULE Spec2Model ----------------------------
(***************************************************************************)
(* Model of services/vendor.seo.service.ts: the signature cache file, the  *)
(* CapSolver client (createTask + bounded polling), the signature exchange *)
(* with the overview endpoint, and the four executors getBacklinks,        *)
(* getKeywordIdeas, getKeywordDifficulty and checkTraffic.                 *)
(*                                                                         *)
(* Every `await` of the source is a suspend point: a call is a record with *)
(* a program counter, and one action runs the code between two suspend     *)
(* points.  HTTP responses, the outcome of the file write and the passage  *)
(* of time are the environment's choices.                                  *)
(*                                                                         *)
(* The clock is Date.now() / 1000 (seconds).  It is advanced in steps of   *)
(* one hour; the solver's 1 s polling delay is below that resolution, so   *)
(* a sleep does not by itself move the clock.                              *)
(*                                                                         *)
(* The file system calls are synchronous, so inside one process a save or  *)
(* a load is part of one action.  Another server process on the same file  *)
(* sees the two halves of fs.writeFileSync (open with truncation, then     *)
(* write): PeerOpens and PeerWrites.                                       *)
(***************************************************************************)
EXTENDS Integers, Sequences, FiniteSets, TLC

VARIABLES
    now,        \* Date.now() / 1000
    apiKey,     \* config.get('CAPSOLVER_API_KEY') || env.CAPSOLVER_API_KEY
    cacheFile,  \* SIGNATURE_CACHE_FILE on disk
    calls,      \* the executor calls (one record per slot)
    patience,   \* environment: most "processing" answers the solver gives a task
    horizon,    \* environment: the last clock value of a run
    peer        \* another server process that shares SIGNATURE_CACHE_FILE

vars == <<now, apiKey, cacheFile, calls, patience, horizon, peer>>

-----------------------------------------------------------------------------
(* Bounds of the model *)

\* the clock runs from 0 to MaxTime hours
MaxTime == 2
\* the platform issues validUntil values of 1 .. MaxValid hours
MaxValid == 2
\* the solving service answers "processing" at most MaxPending times per task
\* (in the runs that exercise the cache; the runs that exercise the solver
\* let it answer "processing" for ever)
MaxPending == 2

-----------------------------------------------------------------------------
(* Values *)

\* JavaScript null / undefined
Null == "<null>"

\* !x for the strings the code tests
Falsy(x) == x \in {Null, ""}

Domains == {"a.com", "b.com"}
Keywords == {"seo"}

Ops == {"getBacklinks", "getKeywordIdeas", "getKeywordDifficulty", "checkTraffic"}

\* getBacklinks(domain) and checkTraffic(domainOrUrl) take a domain, the two
\* keyword executors a keyword
SubjectsOf(op) ==
    IF op \in {"getBacklinks", "checkTraffic"} THEN Domains ELSE Keywords

Calls == DOMAIN calls

\* the slots of the runs with one call at a time, and of the runs with two
\* calls in flight
Sequential == {1}

Overlapping == {1, 2}

\* ISO 8601 strings the platform uses for validUntil, by hour
IsoStrings == << "1970-01-01T01:00:00Z", "1970-01-01T02:00:00Z",
                 "1970-01-01T03:00:00Z", "1970-01-01T04:00:00Z" >>

\* a validUntil that new Date() cannot parse
NotADate == "soon"

\* new Date(x).getTime() of an unparsable string
NaN == -1

\* const maxAttempts = 30
maxAttempts == 30

\* faulty variant: the rewritten "+00:00" string fails to parse
isoToTimestamp_unparsed(isoDateString) == NaN

isoToTimestamp(isoDateString) ==
    IF \E i \in 1..Len(IsoStrings) : IsoStrings[i] = isoDateString
    THEN 3600 * (CHOOSE i \in 1..Len(IsoStrings) : IsoStrings[i] = isoDateString)
    ELSE NaN

\* faulty variant: <= for <
NumLess_orEqual(a, b) == b # NaN /\ a <= b

\* a < b on JavaScript numbers: false whenever b is NaN
NumLess(a, b) == b # NaN /\ a < b


-----------------------------------------------------------------------------
(* The signature cache file *)

\* a file that holds no JSON object carries no entries
NoData == [d \in {} |-> Null]

\* kind: "missing" (no file), "corrupt" (JSON.parse throws), "null" (parses
\* to null), "object" (parses to an object keyed by domain)
FileOf(kind, data) == [kind |-> kind, data |-> data]

\* [null, null, null]
Absent == [signature |-> Null, validUntil |-> Null, overviewData |-> Null]

Triple(signature, validUntil, overviewData) ==
    [signature |-> signature, validUntil |-> validUntil,
     overviewData |-> overviewData]

\* faulty variant: an entry is still taken at the instant validUntil names
NotExpired_inclusive(validUntil, currentTime) ==
    /\ ~Falsy(validUntil)
    /\ isoToTimestamp(validUntil) # NaN
    /\ currentTime <= isoToTimestamp(validUntil)

\* the expiry test of loadSignatureFromCache
NotExpired(validUntil, currentTime) ==
    /\ ~Falsy(validUntil)
    /\ NumLess(currentTime, isoToTimestamp(validUntil))

\* faulty variant: the file is never read
loadSignatureFromCache_never(file, domain, currentTime) == Absent

loadSignatureFromCache(file, domain, currentTime) ==
    IF file.kind # "object" \/ domain \notin DOMAIN file.data
    THEN Absent
    ELSE LET domainCache == file.data[domain]
         IN  IF NotExpired(domainCache.validUntil, currentTime)
             THEN Triple(domainCache.signature, domainCache.validUntil,
                         domainCache.overviewData)
             ELSE Absent

\* what fs.writeFileSync does: "ok" writes the file; "denied" throws before
\* the file is opened; "truncated" throws after the file was opened for
\* writing (the old content is gone and the new one is incomplete)
WriteOutcomes == {"ok", "denied", "truncated"}

CacheEntry(signature, validUntil, overviewData, timestamp) ==
    [signature |-> signature, validUntil |-> validUntil,
     overviewData |-> overviewData, timestamp |-> timestamp]

\* faulty variant: an existing entry is updated field by field
\* (cacheData[domain].signature = ..., cacheData[domain].validUntil = ...)
Merge_fieldwise(data, domain, entry) ==
    [d \in DOMAIN data \cup {domain} |->
        IF d # domain THEN data[d]
        ELSE IF d \in DOMAIN data
             THEN [data[d] EXCEPT !.signature = entry.signature,
                                  !.validUntil = entry.validUntil]
             ELSE entry]

\* faulty variant: the file is written with the new entry alone
Merge_alone(data, domain, entry) == [d \in {domain} |-> entry]

\* faulty variant: an entry the file already has is kept
Merge_keepsFirst(data, domain, entry) ==
    [d \in DOMAIN data \cup {domain} |->
        IF d \in DOMAIN data THEN data[d] ELSE entry]

\* cacheData[domain] = {...} on the object read from the file
Merge(data, domain, entry) ==
    [d \in DOMAIN data \cup {domain} |-> IF d = domain THEN entry ELSE data[d]]

\* faulty variant: true is returned although fs.writeFileSync threw
saveSignatureToCache_alwaysTrue(file, signature, validUntil, overviewData, domain, currentTime, write) ==
    LET cacheData == IF file.kind = "object" THEN file.data ELSE NoData
        entry == CacheEntry(signature, validUntil, overviewData, currentTime)
    IN  IF file.kind = "null"
        THEN [file |-> file, ok |-> FALSE]
        ELSE CASE write = "ok" ->
                    [file |-> FileOf("object", Merge(cacheData, domain, entry)),
                     ok |-> TRUE]
               [] write = "denied" ->
                    [file |-> file, ok |-> TRUE]
               [] write = "truncated" ->
                    [file |-> FileOf("corrupt", NoData), ok |-> TRUE]

\* returns the file after the call and the boolean the function returns
saveSignatureToCache(file, signature, validUntil, overviewData, domain, currentTime, write) ==
    LET cacheData == IF file.kind = "object" THEN file.data ELSE NoData
        entry == CacheEntry(signature, validUntil, overviewData, currentTime)
    IN  IF file.kind = "null"
        THEN [file |-> file, ok |-> FALSE]
        ELSE CASE write = "ok" ->
                    [file |-> FileOf("object", Merge(cacheData, domain, entry)),
                     ok |-> TRUE]
               [] write = "denied" ->
                    [file |-> file, ok |-> FALSE]
               [] write = "truncated" ->
                    [file |-> FileOf("corrupt", NoData), ok |-> FALSE]

-----------------------------------------------------------------------------
(* The CapSolver client: getCapsolverToken *)

\* responses of POST createTask; transport "error" is axios throwing
CreateTaskResponses ==
    {[transport |-> t, taskId |-> id] :
        t \in {"ok"}, id \in {Null, "task-1"}}
    \cup {[transport |-> "error", taskId |-> Null]}

\* no response received yet
NoResp == [transport |-> "none", status |-> Null, errorId |-> 0, token |-> Null]

PollResp(transport, status, errorId, token) ==
    [transport |-> transport, status |-> status, errorId |-> errorId,
     token |-> token]

\* responses of POST getTaskResult: {status, solution?: {token}, errorId?}
PollResponses ==
    { PollResp("error", Null, 0, Null),
      PollResp("ok", "processing", 0, Null),
      PollResp("ok", "processing", 1, Null),
      PollResp("ok", "failed", 0, Null),
      PollResp("ok", "ready", 0, "token-1"),
      PollResp("ok", "ready", 0, Null),
      PollResp("ok", "ready", 0, ""),
      PollResp("ok", "ready", 1, "token-1") }

\* the frame of one getCapsolverToken call
NoSolver ==
    [pc |-> "none", attempts |-> 0, nPoll |-> 0, nSleep |-> 0,
     last |-> NoResp, token |-> Null]

\* return of getCapsolverToken: the frame keeps what it counted
SolverReturn(frame, token) == [frame EXCEPT !.pc = "returned", !.token = token]

\* faulty variant: the task identifier is not checked
HasTaskId_unchecked(taskId) == TRUE

\* if (!taskId) return null
HasTaskId(taskId) == ~Falsy(taskId)

\* faulty variant: the key is not checked
HasApiKey_unchecked(key) == TRUE

\* if (!apiKey) return null
HasApiKey(key) == ~Falsy(key)

\* faulty variant: one attempt too many
MoreAttempts_inclusive(attempts) == attempts <= maxAttempts

\* while (attempts < maxAttempts)
MoreAttempts(attempts) == attempts < maxAttempts

\* faulty variant: errorId is not looked at
PollVerdict_ignoresErrorId(resp) ==
    IF resp.status = "ready" THEN "ready"
    ELSE IF resp.status = "failed" THEN "failed"
    ELSE "pending"

\* faulty variant: the failure test comes before the "ready" test
PollVerdict_failureFirst(resp) ==
    IF resp.status = "failed" \/ resp.errorId # 0 THEN "failed"
    ELSE IF resp.status = "ready" THEN "ready"
    ELSE "pending"

\* what the loop body does with a poll response: "ready" returns the token,
\* "failed" returns null, "pending" counts the attempt
PollVerdict(resp) ==
    IF resp.status = "ready" THEN "ready"
    ELSE IF resp.status = "failed" \/ resp.errorId # 0 THEN "failed"
    ELSE "pending"

\* faulty variant: the loop has no attempt ceiling
LoopTop_noCeiling(frame) == [frame EXCEPT !.pc = "sleeping", !.nSleep = @ + 1]

\* the top of the loop: sleep again, or time out
LoopTop(frame) ==
    IF MoreAttempts(frame.attempts)
    THEN [frame EXCEPT !.pc = "sleeping", !.nSleep = @ + 1]
    ELSE SolverReturn(frame, Null)

\* the code of getCapsolverToken up to its first suspend point: with a key
\* the createTask request is sent, without one the function returns null
SolverEnter(key) ==
    IF HasApiKey(key)
    THEN [NoSolver EXCEPT !.pc = "awaitCreate"]
    ELSE SolverReturn(NoSolver, Null)

\* createTask answered
SolverOnCreate(frame, resp) ==
    IF resp.transport = "error" THEN SolverReturn(frame, Null)
    ELSE IF ~HasTaskId(resp.taskId) THEN SolverReturn(frame, Null)
    ELSE LoopTop([frame EXCEPT !.attempts = 0])

\* the 1 s timer fired: POST getTaskResult
SolverOnTimer(frame) == [frame EXCEPT !.pc = "awaitPoll", !.nPoll = @ + 1]

\* faulty variant: a transport failure of getTaskResult is not caught
SolverOnPoll_raises(frame, resp) ==
    LET seen == [frame EXCEPT !.last = resp]
    IN  IF resp.transport = "error" THEN [seen EXCEPT !.pc = "raised"]
        ELSE CASE PollVerdict(resp) = "ready" -> SolverReturn(seen, resp.token)
               [] PollVerdict(resp) = "failed" -> SolverReturn(seen, Null)
               [] OTHER -> LoopTop([seen EXCEPT !.attempts = @ + 1])

\* getTaskResult answered
SolverOnPoll(frame, resp) ==
    LET seen == [frame EXCEPT !.last = resp]
    IN  IF resp.transport = "error" THEN SolverReturn(seen, Null)
        ELSE CASE PollVerdict(resp) = "ready" -> SolverReturn(seen, resp.token)
               [] PollVerdict(resp) = "failed" -> SolverReturn(seen, Null)
               [] OTHER -> LoopTop([seen EXCEPT !.attempts = @ + 1])

-----------------------------------------------------------------------------
(* The signature exchange: getSignatureAndOverview *)

Overview(signature) ==
    IF signature = "sig-2" THEN "overview-2" ELSE "overview-1"

ValidUntilValues == {IsoStrings[i] : i \in 1..MaxValid} \cup {NotADate, Null}

MintResp(transport, status, shape, tag, signature, validUntil) ==
    [transport |-> transport, status |-> status, shape |-> shape, tag |-> tag,
     signature |-> signature, validUntil |-> validUntil,
     data |-> Overview(signature)]

\* responses of POST stGetFreeBacklinksOverview.  shape "array2" is
\* [tag, {signedInput: {signature, input: {validUntil}}, data}], "array1" a
\* one-element array, "object" a body that is no array.  axios throws on a
\* status outside 2xx (transport "error").
MintResponses ==
    { MintResp("error", 500, "object", Null, Null, Null),
      MintResp("ok", 204, "array2", "Ok", "sig-1", IsoStrings[1]),
      MintResp("ok", 200, "object", Null, Null, Null),
      MintResp("ok", 200, "array1", "Ok", Null, Null),
      MintResp("ok", 200, "array1", "Ok", "sig-1", IsoStrings[1]),
      MintResp("ok", 200, "array2", "Ok", "", IsoStrings[1]),
      MintResp("ok", 200, "array2", "Ok", "sig-1", "") }
    \cup { MintResp("ok", 200, "array2", tag, sig, vu) :
             tag \in {"Ok", "Error"}, sig \in {Null, "sig-1", "sig-2"},
             vu \in ValidUntilValues }

\* no overview response at hand (outside getSignatureAndOverview)
NoMintResp == MintResp("none", 0, "none", Null, Null, Null)

\* faulty variant: the body is not tested for being an array of two elements
MintExtract_anyShape(resp) ==
    IF resp.transport = "error" THEN Absent
    ELSE IF resp.status # 200 THEN Absent
    ELSE IF ~Falsy(resp.signature) /\ ~Falsy(resp.validUntil)
         THEN Triple(resp.signature, resp.validUntil, resp.data)
         ELSE Absent

\* faulty variant: the first element of the array has to be "Ok"
MintExtract_okOnly(resp) ==
    IF resp.transport = "error" THEN Absent
    ELSE IF resp.status # 200 THEN Absent
    ELSE IF /\ resp.shape = "array2"
            /\ resp.tag = "Ok"
            /\ ~Falsy(resp.signature)
            /\ ~Falsy(resp.validUntil)
         THEN Triple(resp.signature, resp.validUntil, resp.data)
         ELSE Absent

\* the [signature, validUntil, overviewData] the response yields, or Absent
MintExtract(resp) ==
    IF resp.transport = "error" THEN Absent
    ELSE IF resp.status # 200 THEN Absent
    ELSE IF /\ resp.shape = "array2"
            /\ ~Falsy(resp.signature)
            /\ ~Falsy(resp.validUntil)
         THEN Triple(resp.signature, resp.validUntil, resp.data)
         ELSE Absent

-----------------------------------------------------------------------------
(* formatBacklinks *)

\* an optional field of a raw item: <<>> when absent, <<v>> when present
Or(field, default) == IF field = <<>> THEN default ELSE field[1]

RawBacklink(anchor, domainRating, title, urlFrom, urlTo, edu, gov) ==
    [anchor |-> anchor, domainRating |-> domainRating, title |-> title,
     urlFrom |-> urlFrom, urlTo |-> urlTo, edu |-> edu, gov |-> gov]

FullItem ==
    RawBacklink(<<"home">>, <<57>>, <<"Home page">>, <<"https://x.org/p">>,
                <<"https://a.com/">>, <<TRUE>>, <<FALSE>>)

BareItem == RawBacklink(<<>>, <<>>, <<>>, <<>>, <<>>, <<>>, <<>>)

MixedItem ==
    RawBacklink(<<>>, <<12>>, <<>>, <<"https://y.net/q">>, <<>>, <<>>, <<TRUE>>)

simplifiedBacklink(backlink) ==
    [anchor |-> Or(backlink.anchor, ""),
     domainRating |-> Or(backlink.domainRating, 0),
     title |-> Or(backlink.title, ""),
     urlFrom |-> Or(backlink.urlFrom, ""),
     urlTo |-> Or(backlink.urlTo, ""),
     edu |-> Or(backlink.edu, FALSE),
     gov |-> Or(backlink.gov, FALSE)]

\* a list-endpoint body: shape "array2" is [_, {topBacklinks: {backlinks}}];
\* kind says what backlinks is: "missing", "object" (truthy, no array) or
\* "array" (then items holds the raw items)
ListBody(shape, kind, items) == [shape |-> shape, kind |-> kind, items |-> items]

ListBodies ==
    { ListBody("object", "missing", <<>>),
      ListBody("array1", "missing", <<>>),
      ListBody("array2", "missing", <<>>),
      ListBody("array2", "object", <<>>),
      ListBody("array2", "array", <<>>),
      ListBody("array2", "array", <<FullItem, BareItem>>),
      ListBody("array2", "array", <<BareItem, MixedItem, FullItem>>) }

\* faulty variant: a body that is no array of two elements raises
formatBacklinks_strict(backlinksData) ==
    IF backlinksData.shape = "array2" /\ backlinksData.kind = "array"
    THEN [threw |-> FALSE,
          value |-> [i \in 1..Len(backlinksData.items) |->
                       simplifiedBacklink(backlinksData.items[i])]]
    ELSE [threw |-> backlinksData.shape # "array2" \/ backlinksData.kind = "object",
          value |-> <<>>]

\* faulty variant: the items come out last first
formatBacklinks_reversed(backlinksData) ==
    IF backlinksData.shape = "array2" /\ backlinksData.kind # "missing"
    THEN IF backlinksData.kind = "array"
         THEN [threw |-> FALSE,
               value |-> [i \in 1..Len(backlinksData.items) |->
                            simplifiedBacklink(
                               backlinksData.items[Len(backlinksData.items) + 1 - i])]]
         ELSE [threw |-> TRUE, value |-> <<>>]
    ELSE [threw |-> FALSE, value |-> <<>>]

\* threw: backlinks.map is not a function
formatBacklinks(backlinksData) ==
    IF backlinksData.shape = "array2" /\ backlinksData.kind # "missing"
    THEN IF backlinksData.kind = "array"
         THEN [threw |-> FALSE,
               value |-> [i \in 1..Len(backlinksData.items) |->
                            simplifiedBacklink(backlinksData.items[i])]]
         ELSE [threw |-> TRUE, value |-> <<>>]
    ELSE [threw |-> FALSE, value |-> <<>>]

ListResponses ==
    {[transport |-> "error", status |-> 500, body |-> ListBody("object", "missing", <<>>)],
     [transport |-> "ok", status |-> 204, body |-> ListBody("array2", "array", <<>>)]}
    \cup {[transport |-> "ok", status |-> 200, body |-> b] : b \in ListBodies}

-----------------------------------------------------------------------------
(* formatKeywordIdeas *)

RawIdea(keyword, country, difficultyLabel, volumeLabel, updatedAt) ==
    [keyword |-> keyword, country |-> country,
     difficultyLabel |-> difficultyLabel, volumeLabel |-> volumeLabel,
     updatedAt |-> updatedAt]

FullIdea == RawIdea(<<"seo tips">>, <<"us">>, <<"Easy">>, <<"1K">>, <<"2024-05-01">>)

BareIdea == RawIdea(<<>>, <<>>, <<>>, <<>>, <<>>)

QuestionIdea == RawIdea(<<"how to seo">>, <<"us">>, <<>>, <<>>, <<>>)

simplifiedIdea(idea) ==
    [keyword |-> Or(idea.keyword, "No keyword"),
     country |-> Or(idea.country, "-"),
     difficulty |-> Or(idea.difficultyLabel, "Unknown"),
     volume |-> Or(idea.volumeLabel, "Unknown"),
     updatedAt |-> Or(idea.updatedAt, "-")]

\* data.allIdeas / data.questionIdeas: kind says what .results is: "missing"
\* (the group or its results are absent), "object" (truthy, not iterable) or
\* "array" (then results holds the raw ideas)
IdeaGroup(kind, results) == [kind |-> kind, results |-> results]

NoGroup == IdeaGroup("missing", <<>>)

IdeasPayload(allIdeas, questionIdeas) ==
    [allIdeas |-> allIdeas, questionIdeas |-> questionIdeas]

\* the entries one group pushes onto result
Labelled(label, results) ==
    [i \in 1..Len(results) |-> [label |-> label, value |-> simplifiedIdea(results[i])]]

\* faulty variant: the question ideas are pushed first
formatKeywordIdeas_questionsFirst(shape, data) ==
    IF shape # "array2" THEN [threw |-> FALSE, value |-> <<>>]
    ELSE IF data.allIdeas.kind = "object" \/ data.questionIdeas.kind = "object"
         THEN [threw |-> TRUE, value |-> <<>>]
         ELSE [threw |-> FALSE,
               value |-> Labelled("question ideas", data.questionIdeas.results)
                         \o Labelled("keyword ideas", data.allIdeas.results)]

\* formatKeywordIdeas(keywordData) for a body of the given shape whose second
\* element is data; threw: `for (const idea of ...)` over a value that is not
\* iterable
formatKeywordIdeas(shape, data) ==
    IF shape # "array2" THEN [threw |-> FALSE, value |-> <<>>]
    ELSE IF data.allIdeas.kind = "object" \/ data.questionIdeas.kind = "object"
         THEN [threw |-> TRUE, value |-> <<>>]
         ELSE [threw |-> FALSE,
               value |-> Labelled("keyword ideas", data.allIdeas.results)
                         \o Labelled("question ideas", data.questionIdeas.results)]

-----------------------------------------------------------------------------
(* The normalization of getKeywordDifficulty *)

Metrics(domainRating, urlRating, traffic, keywords, topKeyword, topVolume) ==
    [domainRating |-> domainRating, urlRating |-> urlRating,
     traffic |-> traffic, keywords |-> keywords, topKeyword |-> topKeyword,
     topVolume |-> topVolume]

\* organicData.link[1]: metrics is <<>> when absent, <<m>> when present
LinkData(title, url, metrics) ==
    [title |-> title, url |-> url, metrics |-> metrics]

\* item of kdData.serp.results: content is <<>> when absent, else
\* <<tag, [link |-> l]>> with l = <<>> (absent), <<"None">> or
\* <<"Some", linkData>>
SerpItem(pos, content) == [pos |-> pos, content |-> content]

OrganicFull ==
    SerpItem(<<1>>, <<"organic", [link |-> <<"Some",
        LinkData(<<"SEO guide">>, <<"https://x.org/seo">>,
                 <<Metrics(<<80>>, <<40>>, <<1200>>, <<35>>, <<"seo">>, <<900>>)>>)>>]>>)

OrganicNoMetrics ==
    SerpItem(<<2>>, <<"organic", [link |-> <<"Some",
        LinkData(<<>>, <<"https://y.org/">>, <<>>)>>]>>)

OrganicBareMetrics ==
    SerpItem(<<>>, <<"organic", [link |-> <<"Some",
        LinkData(<<"Tips">>, <<>>,
                 <<Metrics(<<>>, <<>>, <<>>, <<>>, <<>>, <<>>)>>)>>]>>)

OrganicNoLink == SerpItem(<<4>>, <<"organic", [link |-> <<"None">>]>>)

OrganicLinkAbsent == SerpItem(<<5>>, <<"organic", [link |-> <<>>]>>)

PaidItem ==
    SerpItem(<<6>>, <<"paid", [link |-> <<"Some",
        LinkData(<<"Ad">>, <<"https://ad.example/">>, <<>>)>>]>>)

NoContentItem == SerpItem(<<7>>, <<>>)

\* faulty variant: the tag of the entry is not tested
OrganicWithLink_anyTag(item) ==
    /\ item.content # <<>>
    /\ item.content[2].link # <<>>
    /\ item.content[2].link[1] = "Some"

\* if (item.content && item.content[0] === 'organic') and
\* if (organicData.link && organicData.link[0] === 'Some')
OrganicWithLink(item) ==
    /\ item.content # <<>>
    /\ item.content[1] = "organic"
    /\ item.content[2].link # <<>>
    /\ item.content[2].link[1] = "Some"

\* resultItem, with the six metric fields assigned when linkData.metrics
resultItem(item) ==
    LET linkData == item.content[2].link[2]
    IN  IF linkData.metrics = <<>>
        THEN [title |-> Or(linkData.title, ""),
              url |-> Or(linkData.url, ""),
              position |-> Or(item.pos, 0)]
        ELSE LET metrics == linkData.metrics[1]
             IN  [title |-> Or(linkData.title, ""),
                  url |-> Or(linkData.url, ""),
                  position |-> Or(item.pos, 0),
                  domainRating |-> Or(metrics.domainRating, 0),
                  urlRating |-> Or(metrics.urlRating, 0),
                  traffic |-> Or(metrics.traffic, 0),
                  keywords |-> Or(metrics.keywords, 0),
                  topKeyword |-> Or(metrics.topKeyword, ""),
                  topVolume |-> Or(metrics.topVolume, 0)]

\* the loop over kdData.serp.results: serpResults.push(resultItem)
RECURSIVE serpResults(_)
serpResults(items) ==
    IF items = <<>> THEN <<>>
    ELSE IF OrganicWithLink(Head(items))
         THEN <<resultItem(Head(items))>> \o serpResults(Tail(items))
         ELSE serpResults(Tail(items))

\* kdData.serp: kind "missing" (no serp or no serp.results) or "array"
Serp(kind, results) == [kind |-> kind, results |-> results]

KdPayload(difficulty, shortage, lastUpdate, serp) ==
    [difficulty |-> difficulty, shortage |-> shortage,
     lastUpdate |-> lastUpdate, serp |-> serp]

\* the result object getKeywordDifficulty builds from kdData
kdResult(kdData) ==
    [difficulty |-> Or(kdData.difficulty, 0),
     shortage |-> Or(kdData.shortage, 0),
     lastUpdate |-> Or(kdData.lastUpdate, ""),
     serp |-> [results |-> IF kdData.serp.kind = "array"
                           THEN serpResults(kdData.serp.results)
                           ELSE <<>>]]

-----------------------------------------------------------------------------
(* The normalization of checkTraffic *)

\* trafficData: each list is <<>> when absent and <<list>> when present;
\* traffic is <<>> when absent and <<[trafficMonthlyAvg, costMontlyAvg]>>
\* (each <<>> or <<n>>) when present
TrafficPayload(traffic_history, traffic, top_pages, top_countries, top_keywords) ==
    [traffic_history |-> traffic_history, traffic |-> traffic,
     top_pages |-> top_pages, top_countries |-> top_countries,
     top_keywords |-> top_keywords]

TrafficFigures(trafficMonthlyAvg, costMontlyAvg) ==
    [trafficMonthlyAvg |-> trafficMonthlyAvg, costMontlyAvg |-> costMontlyAvg]

\* trafficData.traffic?.field || 0
FigureOr0(traffic, field) ==
    IF traffic = <<>> THEN 0 ELSE Or(traffic[1][field], 0)

\* faulty variant: top_pages is passed on as it came, so that the result has
\* no top_pages when the payload has none
trafficResult_rawTopPages(trafficData) ==
    IF trafficData.top_pages = <<>>
    THEN [traffic_history |-> Or(trafficData.traffic_history, <<>>),
          traffic |-> [trafficMonthlyAvg |-> FigureOr0(trafficData.traffic, "trafficMonthlyAvg"),
                       costMontlyAvg |-> FigureOr0(trafficData.traffic, "costMontlyAvg")],
          top_countries |-> Or(trafficData.top_countries, <<>>),
          top_keywords |-> Or(trafficData.top_keywords, <<>>)]
    ELSE [traffic_history |-> Or(trafficData.traffic_history, <<>>),
          traffic |-> [trafficMonthlyAvg |-> FigureOr0(trafficData.traffic, "trafficMonthlyAvg"),
                       costMontlyAvg |-> FigureOr0(trafficData.traffic, "costMontlyAvg")],
          top_pages |-> trafficData.top_pages[1],
          top_countries |-> Or(trafficData.top_countries, <<>>),
          top_keywords |-> Or(trafficData.top_keywords, <<>>)]

\* the result object checkTraffic builds from trafficData
trafficResult(trafficData) ==
    [traffic_history |-> Or(trafficData.traffic_history, <<>>),
     traffic |-> [trafficMonthlyAvg |-> FigureOr0(trafficData.traffic, "trafficMonthlyAvg"),
                  costMontlyAvg |-> FigureOr0(trafficData.traffic, "costMontlyAvg")],
     top_pages |-> Or(trafficData.top_pages, <<>>),
     top_countries |-> Or(trafficData.top_countries, <<>>),
     top_keywords |-> Or(trafficData.top_keywords, <<>>)]

-----------------------------------------------------------------------------
(* Responses of the keyword-ideas, keyword-difficulty and traffic endpoints *)

\* shape "array2" is [tag, payload]; "array1" is an array of fewer than two
\* elements; "object" is no array
DataResp(transport, status, shape, tag, payload) ==
    [transport |-> transport, status |-> status, shape |-> shape,
     tag |-> tag, payload |-> payload]

\* the responses whose payload is `none` or `plain`, and the 200 responses
\* [ "Ok", payload ] for the payloads given
Envelopes(none, plain, payloads) ==
    { DataResp("error", 500, "object", Null, none),
      DataResp("ok", 204, "array2", "Ok", plain),
      DataResp("ok", 204, "object", Null, none),
      DataResp("ok", 200, "object", Null, none),
      DataResp("ok", 200, "array1", "Ok", none),
      DataResp("ok", 200, "array2", "Error", none) }
    \cup { DataResp("ok", 200, "array2", "Ok", payload) : payload \in payloads }

NoIdeas == IdeasPayload(NoGroup, NoGroup)

PlainIdeas == IdeasPayload(IdeaGroup("array", <<FullIdea>>), NoGroup)

AllIdeasGroups ==
    { NoGroup, IdeaGroup("object", <<>>), IdeaGroup("array", <<>>),
      IdeaGroup("array", <<FullIdea>>),
      IdeaGroup("array", <<FullIdea, BareIdea>>),
      IdeaGroup("array", <<BareIdea, FullIdea>>) }

QuestionIdeasGroups ==
    { NoGroup, IdeaGroup("object", <<>>), IdeaGroup("array", <<>>),
      IdeaGroup("array", <<QuestionIdea>>),
      IdeaGroup("array", <<QuestionIdea, BareIdea>>) }

IdeasPayloads ==
    { IdeasPayload(allIdeas, questionIdeas) :
        allIdeas \in AllIdeasGroups, questionIdeas \in QuestionIdeasGroups }

NoKd == KdPayload(<<>>, <<>>, <<>>, Serp("missing", <<>>))

PlainKd ==
    KdPayload(<<42>>, <<3>>, <<"2024-05-01">>, Serp("array", <<OrganicFull>>))

SerpLists ==
    { Serp("missing", <<>>), Serp("array", <<>>),
      Serp("array", <<OrganicFull>>),
      Serp("array", <<PaidItem>>),
      Serp("array", <<OrganicFull, PaidItem, OrganicNoMetrics>>),
      Serp("array", <<OrganicNoLink, OrganicNoMetrics, NoContentItem, OrganicFull>>),
      Serp("array", <<OrganicBareMetrics, OrganicLinkAbsent>>) }

KdPayloads ==
    { KdPayload(<<>>, <<>>, <<>>, serp) : serp \in SerpLists }
    \cup { KdPayload(<<42>>, <<3>>, <<"2024-05-01">>, serp) : serp \in SerpLists }

NoTraffic == TrafficPayload(<<>>, <<>>, <<>>, <<>>, <<>>)

PlainTraffic ==
    TrafficPayload(<<<<"2024-04", "2024-05">>>>, <<TrafficFigures(<<1200>>, <<300>>)>>,
                   <<<<"/pricing">>>>, <<<<"us", "de">>>>, <<<<"seo">>>>)

TrafficObjects ==
    { <<>>, <<TrafficFigures(<<>>, <<>>)>>, <<TrafficFigures(<<1200>>, <<>>)>>,
      <<TrafficFigures(<<>>, <<300>>)>>, <<TrafficFigures(<<1200>>, <<300>>)>> }

TrafficPayloads ==
    { TrafficPayload(history, traffic, pages, PlainTraffic.top_countries, keywords) :
        history \in {<<>>, PlainTraffic.traffic_history},
        traffic \in TrafficObjects,
        pages \in {<<>>, <<<<>>>>, PlainTraffic.top_pages},
        keywords \in {<<>>, PlainTraffic.top_keywords} }
    \cup { NoTraffic }

\* the responses the endpoint of an executor may give
DataResponses(op) ==
    IF op = "getKeywordIdeas" THEN Envelopes(NoIdeas, PlainIdeas, IdeasPayloads)
    ELSE IF op = "getKeywordDifficulty" THEN Envelopes(NoKd, PlainKd, KdPayloads)
    ELSE IF op = "checkTraffic" THEN Envelopes(NoTraffic, PlainTraffic, TrafficPayloads)
    ELSE {}

\* the same envelopes with one payload for each endpoint
PlainDataResponses(op) ==
    IF op = "getKeywordIdeas" THEN Envelopes(NoIdeas, PlainIdeas, {PlainIdeas})
    ELSE IF op = "getKeywordDifficulty" THEN Envelopes(NoKd, PlainKd, {PlainKd})
    ELSE IF op = "checkTraffic" THEN Envelopes(NoTraffic, PlainTraffic, {PlainTraffic})
    ELSE {}

-----------------------------------------------------------------------------
(* The executors *)

NoReq == [signature |-> Null, validUntil |-> Null, url |-> <<>>]

NoResult == [overview |-> Null, backlinks |-> <<>>]

\* new McpError(message, ErrorType.API_ERROR, status) thrown by an executor;
\* kind names the throw site: "token", "signature", "status", "format"
McpError(kind, status) == [kind |-> kind, status |-> status]

McpErrorKinds == {"token", "signature", "status", "format"}

\* an error that is no McpError: the AxiosError of a failed request
\* ("axios"), the TypeError of a normalizer ("typeError")
Foreign(kind) == [kind |-> kind, status |-> 0]

\* nothing was raised
NoError == [kind |-> "", status |-> 0]

\* faulty variant: the catch block wraps every error
Rethrown_wrapsAll(raised) == McpError("unexpected", 500)

\* catch (error) { if (error instanceof McpError) throw error;
\*                 throw new McpError(..., ErrorType.UNEXPECTED_ERROR, 500) }
Rethrown(raised) ==
    IF raised.kind \in McpErrorKinds THEN raised
    ELSE McpError("unexpected", 500)

IdleCall ==
    [op |-> "getBacklinks", subject |-> "a.com", pc |-> "idle",
     solver |-> NoSolver, token |-> Null,
     signature |-> Null, validUntil |-> Null, overviewData |-> Null,
     nCreate |-> 0, nMint |-> 0, nData |-> 0,
     found |-> "none", saved |-> "none", mintResp |-> NoMintResp,
     listReq |-> NoReq, raised |-> NoError, error |-> "", errorStatus |-> 0,
     result |-> NoResult]

\* "rejected": the controller has refused the call before the executor ran
Finished == {"idle", "returned", "thrown", "rejected"}

\* what a controller function may be handed as its required parameter:
\* params.domain, params.keyword or params.domainOrUrl, missing, empty or set
ControllerParams(op) == SubjectsOf(op) \cup {Null, ""}

\* faulty variant: only a missing parameter is refused
RequiredMissing_nullOnly(param) == param = Null

\* if (!params.domain), if (!params.keyword), if (!params.domainOrUrl)
RequiredMissing(param) == Falsy(param)

\* throw new Error('... is required ...') inside the controller's try: its
\* catch hands the Error to handleControllerError
ValidationFailure(op, param) ==
    [IdleCall EXCEPT !.op = op, !.subject = param, !.pc = "rejected",
                     !.raised = Foreign("required")]

\* if (!signature || !validUntil)
CacheMiss(signature, validUntil) == Falsy(signature) \/ Falsy(validUntil)

\* faulty variant: the token is not checked
TokenMissing_unchecked(token) == FALSE

\* faulty variant: the token is compared with null only
TokenMissing_nullOnly(token) == token = Null

\* if (!token)
TokenMissing(token) == Falsy(token)

\* faulty variant: the payload is built without the validUntil of the credential
ListPayload_noValidUntil(signature, validUntil, domain) ==
    [signature |-> signature, validUntil |-> Null, url |-> <<domain, "/">>]

\* the payload of the list request
ListPayload(signature, validUntil, domain) ==
    [signature |-> signature, validUntil |-> validUntil, url |-> <<domain, "/">>]

\* an error raised inside the try block of an executor leaves the executor
\* through its catch block; raised is a history field
Throw(rec, raised) ==
    [rec EXCEPT !.pc = "thrown", !.raised = raised,
                !.error = Rethrown(raised).kind,
                !.errorStatus = Rethrown(raised).status,
                !.solver = NoSolver,
                !.token = Null, !.mintResp = NoMintResp]

\* await getCapsolverToken(siteUrl): the call is entered
EnterSolve(rec, key) ==
    LET frame == SolverEnter(key)
    IN  [rec EXCEPT !.pc = "solving", !.solver = frame,
                    !.nCreate = @ + (IF frame.pc = "awaitCreate" THEN 1 ELSE 0)]

\* axios.post(stGetFreeBacklinksList, payload)
SendList(rec) ==
    [rec EXCEPT !.pc = "awaitList", !.nData = @ + 1, !.mintResp = NoMintResp,
                !.listReq = ListPayload(rec.signature, rec.validUntil, rec.subject)]

\* history fields of a call record: found (below), saved (what
\* saveSignatureToCache returned to getSignatureAndOverview) and mintResp
\* (the overview response, while getSignatureAndOverview has not returned
\* to its caller)

\* history: what the file held for the domain when getBacklinks read it
\* ("absent": no readable entry; "novalid": an entry without validUntil;
\* "unparsed": validUntil is no date; "expired": validUntil <= now;
\* "valid": now < validUntil)
Found(file, domain, currentTime) ==
    IF file.kind # "object" \/ domain \notin DOMAIN file.data THEN "absent"
    ELSE LET validUntil == file.data[domain].validUntil
         IN  IF Falsy(validUntil) THEN "novalid"
             ELSE IF isoToTimestamp(validUntil) = NaN THEN "unparsed"
             ELSE IF isoToTimestamp(validUntil) <= currentTime THEN "expired"
             ELSE "valid"

\* faulty variant: loadSignatureFromCache lets the error of JSON.parse (or of
\* indexing null) escape
BacklinksEnter_loadRaises(rec, file, key, currentTime) ==
    LET loaded == loadSignatureFromCache(file, rec.subject, currentTime)
        seen == [rec EXCEPT !.found = Found(file, rec.subject, currentTime)]
    IN  IF file.kind \in {"corrupt", "null"}
        THEN Throw(seen, Foreign("syntaxError"))
        ELSE IF CacheMiss(loaded.signature, loaded.validUntil)
             THEN EnterSolve(seen, key)
             ELSE SendList([seen EXCEPT !.signature = loaded.signature,
                                        !.validUntil = loaded.validUntil,
                                        !.overviewData = loaded.overviewData])

\* getBacklinks from its entry to its first suspend point
BacklinksEnter(rec, file, key, currentTime) ==
    LET loaded == loadSignatureFromCache(file, rec.subject, currentTime)
        seen == [rec EXCEPT !.found = Found(file, rec.subject, currentTime)]
    IN  IF CacheMiss(loaded.signature, loaded.validUntil)
        THEN EnterSolve(seen, key)
        ELSE SendList([seen EXCEPT !.signature = loaded.signature,
                                   !.validUntil = loaded.validUntil,
                                   !.overviewData = loaded.overviewData])

\* faulty variant: getBacklinks does not wait for getSignatureAndOverview
\* and sends the list request with what it holds
AfterSolve_skipsMint(rec) ==
    LET token == rec.solver.token
    IN  IF TokenMissing(token)
        THEN Throw(rec, McpError("token", 500))
        ELSE IF rec.op = "getBacklinks"
             THEN SendList([rec EXCEPT !.solver = NoSolver, !.token = token])
             ELSE [rec EXCEPT !.pc = "awaitData", !.solver = NoSolver,
                              !.token = token, !.nData = @ + 1]

\* the executor after `await getCapsolverToken` returned
AfterSolve(rec) ==
    LET token == rec.solver.token
    IN  IF TokenMissing(token)
        THEN Throw(rec, McpError("token", 500))
        ELSE IF rec.op = "getBacklinks"
             THEN [rec EXCEPT !.pc = "awaitMint", !.solver = NoSolver,
                              !.token = token, !.nMint = @ + 1]
             ELSE [rec EXCEPT !.pc = "awaitData", !.solver = NoSolver,
                              !.token = token, !.nData = @ + 1]

\* faulty variant: a failed mint is tried again
AfterMint_retry(rec) ==
    IF Falsy(rec.signature) \/ Falsy(rec.validUntil)
    THEN [rec EXCEPT !.pc = "awaitMint", !.nMint = @ + 1]
    ELSE [rec EXCEPT !.pc = "awaitList", !.nData = @ + 1,
                     !.listReq = [signature |-> rec.signature,
                                  validUntil |-> rec.validUntil,
                                  url |-> <<rec.subject, "/">>]]

\* faulty variant: a credential that could not be saved is not used
AfterMint_needsSave(rec) ==
    IF CacheMiss(rec.signature, rec.validUntil) \/ rec.saved = "false"
    THEN Throw(rec, McpError("signature", 500))
    ELSE SendList(rec)

\* getBacklinks after `await getSignatureAndOverview` returned
AfterMint(rec) ==
    IF CacheMiss(rec.signature, rec.validUntil)
    THEN Throw(rec, McpError("signature", 500))
    ELSE SendList(rec)

\* getBacklinks after the list request was answered
AfterList(rec, resp) ==
    IF resp.transport = "error" THEN Throw(rec, Foreign("axios"))
    ELSE IF resp.status # 200 THEN Throw(rec, McpError("status", resp.status))
    ELSE LET backlinks == formatBacklinks(resp.body)
         IN  IF backlinks.threw
             THEN Throw(rec, Foreign("typeError"))
             ELSE [rec EXCEPT !.pc = "returned", !.token = Null,
                              !.result = [overview |-> rec.overviewData,
                                          backlinks |-> backlinks.value]]

\* faulty variant: the length of the array is not tested
NotOkTagged_tagOnly(resp) == resp.tag # "Ok"

\* data[0] !== 'Ok' and the array test of getKeywordDifficulty, checkTraffic
NotOkTagged(resp) == resp.shape # "array2" \/ resp.tag # "Ok"

\* what an executor makes of the body of a 200 response
Normalized(op, resp) ==
    IF op = "getKeywordIdeas"
    THEN LET ideas == formatKeywordIdeas(resp.shape, resp.payload)
         IN  [threw |-> ideas.threw, value |-> [ideas |-> ideas.value]]
    ELSE IF op = "getKeywordDifficulty"
         THEN [threw |-> FALSE, value |-> kdResult(resp.payload)]
         ELSE [threw |-> FALSE, value |-> trafficResult(resp.payload)]

\* the three other executors after their data request was answered
AfterData(rec, resp) ==
    IF resp.transport = "error" THEN Throw(rec, Foreign("axios"))
    ELSE IF resp.status # 200 THEN Throw(rec, McpError("status", resp.status))
    ELSE IF rec.op # "getKeywordIdeas" /\ NotOkTagged(resp)
         THEN Throw(rec, McpError("format", 500))
         ELSE LET result == Normalized(rec.op, resp)
              IN  IF result.threw
                  THEN Throw(rec, Foreign("typeError"))
                  ELSE [rec EXCEPT !.pc = "returned", !.token = Null,
                                   !.result = result.value]

-----------------------------------------------------------------------------
(* Another server process on the same cache file *)

\* the other process is not inside saveSignatureToCache
NoPeer ==
    [pc |-> "idle", before |-> FileOf("missing", NoData),
     content |-> FileOf("missing", NoData)]

\* the credential the other process minted
PeerCredential == Triple("sig-2", IsoStrings[MaxValid], "overview-2")

\* the file between the open(O_TRUNC) and the write of fs.writeFileSync: it
\* is empty, and JSON.parse of its content throws
Opened == FileOf("corrupt", NoData)

-----------------------------------------------------------------------------
(* Initial states *)

InitEntries ==
    { CacheEntry("sig-1", IsoStrings[1], "overview-1", 0),
      CacheEntry("sig-1", Null, "overview-1", 0),
      CacheEntry(Null, IsoStrings[2], "overview-1", 0) }

InitFiles ==
    { FileOf("missing", NoData), FileOf("corrupt", NoData),
      FileOf("null", NoData) }
    \cup { FileOf("object", data) :
             data \in UNION { [S -> InitEntries] : S \in SUBSET Domains } }

\* the runs that exercise the cache: any cache file, a clock that runs to
\* MaxTime, a solving service that answers within MaxPending + 1 polls
Init ==
    /\ now = 0
    /\ apiKey \in {Null, "CAP-key"}
    /\ cacheFile \in InitFiles
    /\ calls = [c \in Sequential |-> IdleCall]
    /\ patience = MaxPending
    /\ horizon = 3600 * MaxTime
    /\ peer = NoPeer

\* the runs that exercise the solver: no cache file at the start, one hour
\* of clock, a solving service that may answer "processing" to every poll
InitSolver ==
    /\ now = 0
    /\ apiKey \in {Null, "CAP-key"}
    /\ cacheFile = FileOf("missing", NoData)
    /\ calls = [c \in Sequential |-> IdleCall]
    /\ patience = maxAttempts + 1
    /\ horizon = 3600
    /\ peer = NoPeer

\* the runs with a second process: any cache file, one hour of clock, no
\* API key in this process
InitShared ==
    /\ now = 0
    /\ apiKey = Null
    /\ cacheFile \in InitFiles
    /\ calls = [c \in Sequential |-> IdleCall]
    /\ patience = 0
    /\ horizon = 3600
    /\ peer = NoPeer

\* the runs with two getBacklinks calls in flight: no cache file, or one
\* that holds for each domain an entry without validUntil; an API key; a
\* solving service that answers the first poll; a clock that stands still
InitOverlap ==
    /\ now = 0
    /\ apiKey = "CAP-key"
    /\ cacheFile \in { FileOf("missing", NoData),
                        FileOf("object",
                               [d \in Domains |->
                                  CacheEntry("sig-1", Null, "overview-1", 0)]) }
    /\ calls = [c \in Overlapping |-> IdleCall]
    /\ patience = 0
    /\ horizon = 0
    /\ peer = NoPeer

\* the runs that exercise the normalizers: no cache file at the start, one
\* hour of clock, a solving service that answers the first poll
InitData ==
    /\ now = 0
    /\ apiKey \in {Null, "CAP-key"}
    /\ cacheFile = FileOf("missing", NoData)
    /\ calls = [c \in Sequential |-> IdleCall]
    /\ patience = 0
    /\ horizon = 3600
    /\ peer = NoPeer

\* the runs that enter through the controller: any cache file, one hour of
\* clock, a solving service that answers the first poll
InitController ==
    /\ now = 0
    /\ apiKey \in {Null, "CAP-key"}
    /\ cacheFile \in InitFiles
    /\ calls = [c \in Sequential |-> IdleCall]
    /\ patience = 0
    /\ horizon = 3600
    /\ peer = NoPeer

-----------------------------------------------------------------------------
(* Actions *)

\* faulty variant: every executor goes through the credential cache
Invoke_cached(c, op, subject) ==
    /\ calls[c].pc \in Finished
    /\ \A d \in Calls : d < c => calls[d].pc \notin Finished
    /\ LET rec == [IdleCall EXCEPT !.op = op, !.subject = subject]
       IN  calls' = [calls EXCEPT ![c] =
                        BacklinksEnter(rec, cacheFile, apiKey, now)]
    /\ UNCHANGED <<now, apiKey, cacheFile, patience, horizon, peer>>

\* an executor is called
Invoke(c, op, subject) ==
    /\ calls[c].pc \in Finished
    /\ \A d \in Calls : d < c => calls[d].pc \notin Finished
    /\ LET rec == [IdleCall EXCEPT !.op = op, !.subject = subject]
       IN  calls' = [calls EXCEPT ![c] =
                        IF op = "getBacklinks"
                        THEN BacklinksEnter(rec, cacheFile, apiKey, now)
                        ELSE EnterSolve(rec, apiKey)]
    /\ UNCHANGED <<now, apiKey, cacheFile, patience, horizon, peer>>

\* a controller function is called: it validates its required parameter and
\* then calls the executor of the service
ControllerCall(c, op, param) ==
    IF RequiredMissing(param)
    THEN /\ calls[c].pc \in Finished
         /\ \A d \in Calls : d < c => calls[d].pc \notin Finished
         /\ calls' = [calls EXCEPT ![c] = ValidationFailure(op, param)]
         /\ UNCHANGED <<now, apiKey, cacheFile, patience, horizon, peer>>
    ELSE Invoke(c, op, param)

\* createTask is answered
CreateTaskResponse(c, resp) ==
    /\ calls[c].pc = "solving"
    /\ calls[c].solver.pc = "awaitCreate"
    /\ calls' = [calls EXCEPT ![c].solver = SolverOnCreate(@, resp)]
    /\ UNCHANGED <<now, apiKey, cacheFile, patience, horizon, peer>>

\* the polling delay elapses and getTaskResult is sent
SleepElapsed(c) ==
    /\ calls[c].pc = "solving"
    /\ calls[c].solver.pc = "sleeping"
    /\ calls' = [calls EXCEPT ![c].solver = SolverOnTimer(@)]
    /\ UNCHANGED <<now, apiKey, cacheFile, patience, horizon, peer>>

\* getTaskResult is answered
PollResponse(c, resp) ==
    /\ calls[c].pc = "solving"
    /\ calls[c].solver.pc = "awaitPoll"
    /\ (resp.status = "processing" /\ resp.errorId = 0) =>
            calls[c].solver.attempts < patience
    /\ calls' = [calls EXCEPT ![c].solver = SolverOnPoll(@, resp)]
    /\ UNCHANGED <<now, apiKey, cacheFile, patience, horizon, peer>>

\* getCapsolverToken has returned and the executor resumes
SolveReturns(c) ==
    /\ calls[c].pc = "solving"
    /\ calls[c].solver.pc = "returned"
    /\ calls' = [calls EXCEPT ![c] = AfterSolve(@)]
    /\ UNCHANGED <<now, apiKey, cacheFile, patience, horizon, peer>>

\* the overview request is answered: getSignatureAndOverview runs to its end
MintResponse(c, resp, write) ==
    /\ calls[c].pc = "awaitMint"
    /\ LET got == MintExtract(resp)
           domain == calls[c].subject
           saved == saveSignatureToCache(cacheFile, got.signature,
                        got.validUntil, got.overviewData, domain, now, write)
       IN  /\ calls' = [calls EXCEPT ![c].pc = "mintReturned",
                                     ![c].mintResp = resp,
                                     ![c].signature = got.signature,
                                     ![c].validUntil = got.validUntil,
                                     ![c].overviewData = got.overviewData,
                                     ![c].saved = IF got = Absent THEN "none"
                                                  ELSE IF saved.ok THEN "true"
                                                  ELSE "false"]
           /\ cacheFile' = IF got = Absent THEN cacheFile ELSE saved.file
    /\ UNCHANGED <<now, apiKey, patience, horizon, peer>>

\* getSignatureAndOverview has returned and getBacklinks resumes
MintReturns(c) ==
    /\ calls[c].pc = "mintReturned"
    /\ calls' = [calls EXCEPT ![c] = AfterMint(@)]
    /\ UNCHANGED <<now, apiKey, cacheFile, patience, horizon, peer>>

\* the list request is answered
ListResponse(c, resp) ==
    /\ calls[c].pc = "awaitList"
    /\ calls' = [calls EXCEPT ![c] = AfterList(@, resp)]
    /\ UNCHANGED <<now, apiKey, cacheFile, patience, horizon, peer>>

\* the data request of one of the three other executors is answered
DataResponse(c, resp) ==
    /\ calls[c].pc = "awaitData"
    /\ calls' = [calls EXCEPT ![c] = AfterData(@, resp)]
    /\ UNCHANGED <<now, apiKey, cacheFile, patience, horizon, peer>>

\* an hour passes
Tick ==
    /\ now < horizon
    /\ now' = now + 3600
    /\ UNCHANGED <<apiKey, cacheFile, calls, patience, horizon, peer>>

\* the other process runs saveSignatureToCache up to the point where
\* fs.writeFileSync has opened the file for writing
PeerOpens(domain) ==
    /\ peer.pc = "idle"
    /\ LET saved == saveSignatureToCache(cacheFile, PeerCredential.signature,
                        PeerCredential.validUntil, PeerCredential.overviewData,
                        domain, now, "ok")
       IN  IF saved.ok
           THEN /\ peer' = [pc |-> "writing", before |-> cacheFile,
                            content |-> saved.file]
                /\ cacheFile' = Opened
           ELSE /\ peer' = [peer EXCEPT !.pc = "done"]
                /\ cacheFile' = cacheFile
    /\ UNCHANGED <<now, apiKey, calls, patience, horizon>>

\* fs.writeFileSync of the other process writes the content and returns
PeerWrites ==
    /\ peer.pc = "writing"
    /\ cacheFile' = peer.content
    /\ peer' = [peer EXCEPT !.pc = "done"]
    /\ UNCHANGED <<now, apiKey, calls, patience, horizon>>

Next ==
    \/ \E c \in Calls, op \in Ops : \E subject \in SubjectsOf(op) :
          Invoke(c, op, subject)
    \/ \E c \in Calls, resp \in CreateTaskResponses : CreateTaskResponse(c, resp)
    \/ \E c \in Calls : SleepElapsed(c)
    \/ \E c \in Calls, resp \in PollResponses : PollResponse(c, resp)
    \/ \E c \in Calls : SolveReturns(c)
    \/ \E c \in Calls, resp \in MintResponses, write \in WriteOutcomes :
          MintResponse(c, resp, write)
    \/ \E c \in Calls : MintReturns(c)
    \/ \E c \in Calls, resp \in ListResponses : ListResponse(c, resp)
    \/ \E c \in Calls : \E resp \in PlainDataResponses(calls[c].op) :
          DataResponse(c, resp)
    \/ Tick

Spec == Init /\ [][Next]_vars

\* the runs that enter through the controller
NextController ==
    \/ \E c \in Calls, op \in Ops : \E param \in ControllerParams(op) :
          ControllerCall(c, op, param)
    \/ \E c \in Calls, resp \in CreateTaskResponses : CreateTaskResponse(c, resp)
    \/ \E c \in Calls : SleepElapsed(c)
    \/ \E c \in Calls, resp \in PollResponses : PollResponse(c, resp)
    \/ \E c \in Calls : SolveReturns(c)
    \/ \E c \in Calls, resp \in MintResponses, write \in WriteOutcomes :
          MintResponse(c, resp, write)
    \/ \E c \in Calls : MintReturns(c)
    \/ \E c \in Calls, resp \in ListResponses : ListResponse(c, resp)
    \/ \E c \in Calls : \E resp \in PlainDataResponses(calls[c].op) :
          DataResponse(c, resp)
    \/ Tick

SpecController == InitController /\ [][NextController]_vars

SpecSolver == InitSolver /\ [][Next]_vars

\* the runs with a second process: its save of one credential interleaves
\* with the calls of this process, which has no API key and so reads the
\* cache file without ever writing it
NextShared ==
    \/ \E c \in Calls, op \in Ops : \E subject \in SubjectsOf(op) :
          Invoke(c, op, subject)
    \/ \E c \in Calls : SolveReturns(c)
    \/ \E c \in Calls, resp \in ListResponses : ListResponse(c, resp)
    \/ \E domain \in Domains : PeerOpens(domain)
    \/ PeerWrites
    \/ Tick

SpecShared == InitShared /\ [][NextShared]_vars

\* the runs with two getBacklinks calls in flight: each slot is called once,
\* the second while the first is running, and the steps of the two calls
\* interleave at every suspend point
NextOverlap ==
    \/ \E c \in Calls, subject \in Domains :
          calls[c].pc = "idle" /\ Invoke(c, "getBacklinks", subject)
    \/ \E c \in Calls, resp \in CreateTaskResponses : CreateTaskResponse(c, resp)
    \/ \E c \in Calls : SleepElapsed(c)
    \/ \E c \in Calls, resp \in PollResponses : PollResponse(c, resp)
    \/ \E c \in Calls : SolveReturns(c)
    \/ \E c \in Calls, resp \in MintResponses, write \in WriteOutcomes :
          MintResponse(c, resp, write)
    \/ \E c \in Calls : MintReturns(c)
    \/ \E c \in Calls, resp \in ListResponses : ListResponse(c, resp)

SpecOverlap == InitOverlap /\ [][NextOverlap]_vars

\* the runs of the solver alone, in which every request to the solving
\* service is answered (or fails) and every timer fires
NextSolving ==
    \/ \E c \in Calls, op \in Ops : \E subject \in SubjectsOf(op) :
          Invoke(c, op, subject)
    \/ \E c \in Calls, resp \in CreateTaskResponses : CreateTaskResponse(c, resp)
    \/ \E c \in Calls : SleepElapsed(c)
    \/ \E c \in Calls, resp \in PollResponses : PollResponse(c, resp)
    \/ \E c \in Calls : SolveReturns(c)

SpecSolving ==
    /\ InitSolver
    /\ [][NextSolving]_vars
    /\ WF_vars(\E c \in Calls, resp \in CreateTaskResponses :
                  CreateTaskResponse(c, resp))
    /\ WF_vars(\E c \in Calls : SleepElapsed(c))
    /\ WF_vars(\E c \in Calls, resp \in PollResponses : PollResponse(c, resp))

\* the runs that exercise the normalizers: the data endpoints answer with
\* every payload of DataResponses
NextData ==
    \/ \E c \in Calls, op \in Ops : \E subject \in SubjectsOf(op) :
          Invoke(c, op, subject)
    \/ \E c \in Calls, resp \in CreateTaskResponses : CreateTaskResponse(c, resp)
    \/ \E c \in Calls : SleepElapsed(c)
    \/ \E c \in Calls, resp \in PollResponses : PollResponse(c, resp)
    \/ \E c \in Calls : SolveReturns(c)
    \/ \E c \in Calls, resp \in MintResponses, write \in WriteOutcomes :
          MintResponse(c, resp, write)
    \/ \E c \in Calls : MintReturns(c)
    \/ \E c \in Calls, resp \in ListResponses : ListResponse(c, resp)
    \/ \E c \in Calls : \E resp \in DataResponses(calls[c].op) :
          DataResponse(c, resp)
    \/ Tick

SpecData == InitData /\ [][NextData]_vars

-----------------------------------------------------------------------------
(* Vocabulary of the properties *)

\* the clock reads strictly before the instant validUntil names
StrictlyBefore(t, validUntil) ==
    \E i \in 1..Len(IsoStrings) : IsoStrings[i] = validUntil /\ t < 3600 * i

\* this step is the call of an executor on slot c
Invoked(c) == calls[c].pc \in Finished /\ calls'[c].pc \notin Finished

\* the credential step of the getBacklinks call in slot c went through a
\* mint that returned a credential
Minted(rec) ==
    /\ rec.op = "getBacklinks"
    /\ rec.saved # "none"

\* the getBacklinks call in slot c was served from the cache
FromCache(rec) ==
    /\ rec.op = "getBacklinks"
    /\ rec.pc \in {"awaitList", "returned", "thrown"}
    /\ rec.listReq # NoReq
    /\ rec.saved = "none"

\* the cache file holds exactly this credential for the domain
Holds(file, domain, signature, validUntil, overviewData) ==
    /\ file.kind = "object"
    /\ domain \in DOMAIN file.data
    /\ file.data[domain].signature = signature
    /\ file.data[domain].validUntil = validUntil
    /\ file.data[domain].overviewData = overviewData

\* a getBacklinks call for the domain of the previous call on the slot is
\* invoked while the credential that previous call minted is in its window
SecondCallInWindow(c) ==
    /\ Invoked(c)
    /\ calls'[c].op = "getBacklinks"
    /\ Minted(calls[c])
    /\ calls[c].subject = calls'[c].subject
    /\ StrictlyBefore(now, calls[c].validUntil)

\* the invoked call goes straight to the list request with this credential
ServedWith(rec, signature, validUntil, overviewData) ==
    /\ rec.pc = "awaitList"
    /\ rec.nCreate = 0
    /\ rec.nMint = 0
    /\ rec.saved = "none"
    /\ rec.listReq = [signature |-> signature, validUntil |-> validUntil,
                      url |-> <<rec.subject, "/">>]
    /\ rec.overviewData = overviewData

-----------------------------------------------------------------------------
(* C1 *)

\* C1 as stated: two getBacklinks calls for one domain, the second inside
\* the validity window of the credential the first one minted, perform one
\* challenge solve and one mint in total: the first call made exactly one
\* createTask and one overview request, the second makes none and is served
\* the first call's credential.
C1_TwoCallsOneSolve ==
    [][\A c \in Calls :
          SecondCallInWindow(c) =>
             /\ calls[c].nCreate = 1 /\ calls[c].nMint = 1
             /\ ServedWith(calls'[c], calls[c].signature, calls[c].validUntil,
                           calls[c].overviewData)]_vars

\* C1 amended: the same, provided the first call's write of the cache file
\* succeeded (saveSignatureToCache returned true).
C1_TwoCallsOneSolveWhenSaved ==
    [][\A c \in Calls :
          (SecondCallInWindow(c) /\ calls[c].saved = "true") =>
             /\ calls[c].nCreate = 1 /\ calls[c].nMint = 1
             /\ ServedWith(calls'[c], calls[c].signature, calls[c].validUntil,
                           calls[c].overviewData)]_vars

\* C1 witness: a call is being served, without solve or mint, a credential
\* that only a mint of an earlier call of the run can have put in the file
\* (no initial file holds sig-2) and that is still in its window.
C1_Witness ==
    \E c \in Calls :
        /\ FromCache(calls[c])
        /\ calls[c].pc = "awaitList"
        /\ calls[c].nCreate = 0 /\ calls[c].nMint = 0
        /\ calls[c].listReq.signature = "sig-2"
        /\ Holds(cacheFile, calls[c].subject, "sig-2", calls[c].validUntil,
                 "overview-2")
        /\ StrictlyBefore(now, calls[c].validUntil)

-----------------------------------------------------------------------------
(* C2 *)

\* the getBacklinks call found an entry whose validUntil lies in the past
FoundExpired(rec) == rec.op = "getBacklinks" /\ rec.found = "expired"

\* C2 as stated: a getBacklinks call that found an expired entry and whose
\* credential step succeeded has made one fresh createTask and one fresh
\* overview request, and the file entry of its domain is the credential it
\* minted.
C2_ExpiredIsOverwritten ==
    \A c \in Calls :
        (FoundExpired(calls[c]) /\ Minted(calls[c])) =>
            /\ calls[c].nCreate = 1 /\ calls[c].nMint = 1
            /\ Holds(cacheFile, calls[c].subject, calls[c].signature,
                     calls[c].validUntil, calls[c].overviewData)

\* C2 amended: a getBacklinks call that found an expired entry never uses
\* it: with an API key it sends one createTask, a list request is sent only
\* after its own mint returned a credential (one createTask, one overview
\* request), and when the write of the cache file succeeded the file entry
\* of its domain is the credential it minted.
C2_ExpiredIsRefreshed ==
    \A c \in Calls :
        FoundExpired(calls[c]) =>
            /\ HasApiKey(apiKey) => calls[c].nCreate = 1
            /\ ~FromCache(calls[c])
            /\ calls[c].listReq # NoReq =>
                  /\ Minted(calls[c])
                  /\ calls[c].listReq.signature = calls[c].signature
                  /\ calls[c].listReq.validUntil = calls[c].validUntil
            /\ Minted(calls[c]) =>
                  calls[c].nCreate = 1 /\ calls[c].nMint = 1
            /\ calls[c].saved = "true" =>
                  Holds(cacheFile, calls[c].subject, calls[c].signature,
                        calls[c].validUntil, calls[c].overviewData)

\* C2 witness: an expired sig-1 entry was found, and the file now holds the
\* sig-2 credential the call minted and sends in its list request.
C2_Witness ==
    \E c \in Calls :
        /\ FoundExpired(calls[c])
        /\ calls[c].saved = "true"
        /\ calls[c].pc = "awaitList"
        /\ calls[c].listReq.signature = "sig-2"
        /\ Holds(cacheFile, calls[c].subject, "sig-2", calls[c].validUntil,
                 "overview-2")

-----------------------------------------------------------------------------
(* C3 *)

\* load returns a credential for the domain: a signature and a validUntil
LoadReturnsCredential(domain) ==
    LET loaded == loadSignatureFromCache(cacheFile, domain, now)
    IN  ~Falsy(loaded.signature) /\ ~Falsy(loaded.validUntil)

\* C3: when load returns a credential at the call of getBacklinks, the call
\* goes straight to the list request, which carries the cached signature and
\* validUntil; such a call sends no createTask and no overview request up to
\* its end, and the overview it returns is the payload of that entry.
C3_CacheHitFastPath ==
    /\ [][\A c \in Calls :
             (/\ Invoked(c)
              /\ calls'[c].op = "getBacklinks"
              /\ LoadReturnsCredential(calls'[c].subject)) =>
                LET entry == cacheFile.data[calls'[c].subject]
                IN  ServedWith(calls'[c], entry.signature, entry.validUntil,
                               entry.overviewData)]_vars
    /\ [](\A c \in Calls :
             FromCache(calls[c]) =>
                /\ calls[c].nCreate = 0 /\ calls[c].nMint = 0
                /\ calls[c].nData = 1
                /\ Holds(cacheFile, calls[c].subject,
                         calls[c].listReq.signature,
                         calls[c].listReq.validUntil, calls[c].overviewData)
                /\ calls[c].pc = "returned" =>
                      calls[c].result.overview =
                         cacheFile.data[calls[c].subject].overviewData)

\* C3 witness: a call served from the cache has returned the entry's payload
\* together with a non-empty list of backlinks.
C3_Witness ==
    \E c \in Calls :
        /\ FromCache(calls[c])
        /\ calls[c].pc = "returned"
        /\ calls[c].nCreate = 0 /\ calls[c].nMint = 0
        /\ calls[c].result.overview =
              cacheFile.data[calls[c].subject].overviewData
        /\ Len(calls[c].result.backlinks) = 2

-----------------------------------------------------------------------------
(* C4 *)

\* C4: for every domain, load returns the entry's signature, validUntil and
\* payload exactly when the file holds an entry for the domain and the clock
\* is strictly before its validUntil; otherwise (no entry, no validUntil,
\* now = validUntil, now > validUntil) it returns [null, null, null].  The
\* entry's signature, payload and timestamp have no part in the outcome.
C4_LoadIffStrictlyBefore ==
    \A domain \in Domains :
        LET loaded == loadSignatureFromCache(cacheFile, domain, now)
            present == cacheFile.kind = "object"
                          /\ domain \in DOMAIN cacheFile.data
        IN  IF present /\ StrictlyBefore(now, cacheFile.data[domain].validUntil)
            THEN /\ loaded.signature = cacheFile.data[domain].signature
                 /\ loaded.validUntil = cacheFile.data[domain].validUntil
                 /\ loaded.overviewData = cacheFile.data[domain].overviewData
                 /\ loaded # Absent
            ELSE loaded = Absent

\* C4 witness: getBacklinks read an entry at the very instant its validUntil
\* names (now = validUntil) and took the miss path.
C4_Witness ==
    \E c \in Calls :
        /\ FoundExpired(calls[c])
        /\ calls[c].pc = "solving"
        /\ Holds(cacheFile, calls[c].subject, "sig-1", IsoStrings[1],
                 "overview-1")
        /\ now = 3600

-----------------------------------------------------------------------------
(* C5 *)

\* getCapsolverToken returned no token to the executor in slot c
SolveAbsent(rec) ==
    /\ rec.pc = "solving"
    /\ rec.solver.pc = "returned"
    /\ Falsy(rec.solver.token)

\* getSignatureAndOverview returned no credential to getBacklinks
MintAbsent(rec) ==
    /\ rec.pc = "mintReturned"
    /\ Falsy(rec.signature) \/ Falsy(rec.validUntil)

\* C5: when the solve returns no token, the executor (any of the four)
\* throws its verification-token error having sent no request to the
\* platform; when the mint returns no credential, getBacklinks throws its
\* signature error having sent no list request.  A call that ended with one
\* of these errors has sent no data request.
C5_NoCredentialNoRequest ==
    /\ [][\A c \in Calls :
             /\ (SolveAbsent(calls[c]) /\ calls'[c] # calls[c]) =>
                   /\ calls'[c].pc = "thrown"
                   /\ calls'[c].error = "token"
                   /\ calls'[c].nMint = 0
                   /\ calls'[c].nData = 0
                   /\ calls'[c].listReq = NoReq
             /\ (MintAbsent(calls[c]) /\ calls'[c] # calls[c]) =>
                   /\ calls'[c].pc = "thrown"
                   /\ calls'[c].error = "signature"
                   /\ calls'[c].nData = 0
                   /\ calls'[c].listReq = NoReq]_vars
    /\ [](\A c \in Calls :
             /\ (SolveAbsent(calls[c]) \/ MintAbsent(calls[c])) =>
                   calls[c].nData = 0
             /\ SolveAbsent(calls[c]) => calls[c].nMint = 0
             /\ calls[c].pc \in {"awaitMint", "awaitData"} =>
                   ~Falsy(calls[c].token))

\* C5 witness: checkTraffic ended with the verification-token error after a
\* solve that sent createTask, and no platform request was sent.
C5_Witness ==
    \E c \in Calls :
        /\ calls[c].op = "checkTraffic"
        /\ calls[c].pc = "thrown"
        /\ calls[c].error = "token"
        /\ calls[c].nCreate = 1
        /\ calls[c].nMint = 0 /\ calls[c].nData = 0

-----------------------------------------------------------------------------
(* C6 *)

\* C6: a getBacklinks call sends at most one createTask request and at most
\* one overview request, also after a failed solve or a failed mint.
C6_NoRetry ==
    \A c \in Calls :
        calls[c].op = "getBacklinks" =>
            /\ calls[c].nCreate <= 1
            /\ calls[c].nMint <= 1
            /\ calls[c].nMint <= calls[c].nCreate

\* C6 witness: the mint of a getBacklinks call failed and the call ended with
\* one createTask and one overview request sent.
C6_Witness ==
    \E c \in Calls :
        /\ calls[c].op = "getBacklinks"
        /\ calls[c].pc = "thrown"
        /\ calls[c].error = "signature"
        /\ calls[c].nCreate = 1 /\ calls[c].nMint = 1

-----------------------------------------------------------------------------
(* C7 *)

\* C7: without an API key no createTask and no getTaskResult request is ever
\* sent, and every solve has returned null by the first suspend point of its
\* caller.
C7_NoKeyNoRequest ==
    Falsy(apiKey) =>
        \A c \in Calls :
            /\ calls[c].nCreate = 0
            /\ calls[c].solver.nPoll = 0
            /\ calls[c].solver.nSleep = 0
            /\ calls[c].pc = "solving" =>
                  /\ calls[c].solver.pc = "returned"
                  /\ calls[c].solver.token = Null

\* C7 witness: no API key, and a solve has returned null without a request.
C7_Witness ==
    \E c \in Calls :
        /\ Falsy(apiKey)
        /\ SolveAbsent(calls[c])
        /\ calls[c].solver.token = Null
        /\ calls[c].nCreate = 0
        /\ calls[c].solver.nPoll = 0

-----------------------------------------------------------------------------
(* C8 *)

\* the last poll response left the task pending
LastPending(frame) ==
    /\ frame.last.transport = "ok"
    /\ frame.last.status = "processing"
    /\ frame.last.errorId = 0

\* C8: a solve never sends a 31st getTaskResult; each getTaskResult follows
\* one sleep; after 30 pending answers the solve does not sleep again; and a
\* solve that returned on a pending answer (the timeout) returns null after
\* exactly 30 getTaskResult requests and 30 sleeps.
C8_ThirtyPolls ==
    \A c \in Calls :
        LET frame == calls[c].solver
        IN  /\ frame.nPoll <= 30
            /\ frame.nSleep <= 30
            /\ frame.pc = "sleeping" =>
                  frame.nSleep = frame.nPoll + 1 /\ frame.attempts = frame.nPoll
            /\ frame.pc = "awaitPoll" =>
                  frame.nSleep = frame.nPoll /\ frame.attempts = frame.nPoll - 1
            /\ (frame.pc \in {"sleeping", "awaitPoll"}) => frame.attempts < 30
            /\ (LastPending(frame) /\ frame.attempts = 30) =>
                  frame.pc = "returned"
            /\ (frame.pc = "returned" /\ LastPending(frame)) =>
                  /\ frame.token = Null
                  /\ frame.nPoll = 30
                  /\ frame.nSleep = 30
                  /\ frame.attempts = 30

\* C8 witness: a solve has timed out after 30 polls.
C8_Witness ==
    \E c \in Calls :
        /\ calls[c].solver.pc = "returned"
        /\ LastPending(calls[c].solver)
        /\ calls[c].solver.nPoll = 30
        /\ calls[c].solver.nSleep = 30
        /\ calls[c].solver.token = Null

-----------------------------------------------------------------------------
(* C9 *)

\* the last poll response reports "failed" or carries a non-zero errorId
LastFailed(frame) ==
    /\ frame.last.transport = "ok"
    /\ frame.last.status = "failed" \/ frame.last.errorId # 0

\* C9 as stated: after a poll response that reports "failed" or carries an
\* errorId the solve has returned null (so it polls no further).
C9_FailedIsAbsent ==
    \A c \in Calls :
        LastFailed(calls[c].solver) =>
            /\ calls[c].solver.pc = "returned"
            /\ calls[c].solver.token = Null

\* C9 amended: after a poll response that reports "failed", or carries an
\* errorId with a status other than "ready", the solve has returned null; a
\* response with status "ready" ends the polling too, but returns its token
\* even when it carries an errorId.
C9_FailedNotReadyIsAbsent ==
    \A c \in Calls :
        LastFailed(calls[c].solver) =>
            /\ calls[c].solver.pc = "returned"
            /\ calls[c].solver.nPoll = calls[c].solver.attempts + 1
            /\ IF calls[c].solver.last.status = "ready"
               THEN calls[c].solver.token = calls[c].solver.last.token
               ELSE calls[c].solver.token = Null

\* C9 witness: the second poll carried errorId with status "processing" and
\* the solve returned null after two polls.
C9_Witness ==
    \E c \in Calls :
        /\ calls[c].solver.pc = "returned"
        /\ calls[c].solver.last = PollResp("ok", "processing", 1, Null)
        /\ calls[c].solver.nPoll = 2
        /\ calls[c].solver.token = Null

-----------------------------------------------------------------------------
(* C10 *)

\* C10: after a poll response with status "ready" the solve has returned the
\* token of that response, and the response was its k-th for the k - 1
\* pending answers counted before it, 1 <= k <= 30.
C10_ReadyReturnsToken ==
    \A c \in Calls :
        LET frame == calls[c].solver
        IN  (frame.last.transport = "ok" /\ frame.last.status = "ready") =>
               /\ frame.pc = "returned"
               /\ frame.token = frame.last.token
               /\ frame.nPoll = frame.attempts + 1
               /\ frame.nPoll \in 1..30

\* C10 witness: the 30th poll was the first "ready" one and its token was
\* returned.
C10_Witness ==
    \E c \in Calls :
        /\ calls[c].solver.pc = "returned"
        /\ calls[c].solver.last = PollResp("ok", "ready", 0, "token-1")
        /\ calls[c].solver.nPoll = 30
        /\ calls[c].solver.token = "token-1"

-----------------------------------------------------------------------------
(* C11 *)

\* the places of a getCapsolverToken frame
SolverPlaces == {"none", "awaitCreate", "sleeping", "awaitPoll", "returned"}

\* C11: whatever createTask, getTaskResult or the overview request answer (a
\* transport failure included), the step that takes the answer leaves the
\* executor inside its credential step with the solve or the mint continuing
\* or returned: a solve that saw a transport failure has returned null, a
\* mint that saw one has returned [null, null, null].  An executor that
\* leaves its credential step with an error leaves it from its own test of
\* the returned value: the verification-token error after the solve
\* returned, the signature error after the mint returned.
C11_ClientsNeverRaise ==
    /\ [][\A c \in Calls :
             /\ (/\ calls[c].pc = "solving"
                 /\ calls[c].solver.pc # "returned"
                 /\ calls'[c] # calls[c]) =>
                   /\ calls'[c].pc = "solving"
                   /\ calls'[c].solver.pc \in {"sleeping", "awaitPoll", "returned"}
             /\ (calls[c].pc = "awaitMint" /\ calls'[c] # calls[c]) =>
                   calls'[c].pc = "mintReturned"
             /\ (/\ calls[c].pc \in {"solving", "awaitMint", "mintReturned"}
                 /\ calls'[c].pc = "thrown") =>
                   \/ /\ calls[c].pc = "solving"
                      /\ calls[c].solver.pc = "returned"
                      /\ calls'[c].error = "token"
                   \/ /\ calls[c].pc = "mintReturned"
                      /\ calls'[c].error = "signature"]_vars
    /\ [](\A c \in Calls :
             /\ calls[c].solver.pc \in SolverPlaces
             /\ calls[c].solver.last.transport = "error" =>
                   /\ calls[c].pc = "solving"
                   /\ calls[c].solver.pc = "returned"
                   /\ calls[c].solver.token = Null
             /\ calls[c].mintResp.transport = "error" =>
                   /\ calls[c].pc = "mintReturned"
                   /\ Triple(calls[c].signature, calls[c].validUntil,
                             calls[c].overviewData) = Absent)

\* C11 witness: the overview request failed in transport after a solve that
\* sent createTask, and the mint has returned [null, null, null] to
\* getBacklinks.
C11_Witness ==
    \E c \in Calls :
        /\ calls[c].pc = "mintReturned"
        /\ calls[c].mintResp.transport = "error"
        /\ calls[c].nCreate = 1 /\ calls[c].nMint = 1
        /\ calls[c].signature = Null /\ calls[c].validUntil = Null

-----------------------------------------------------------------------------
(* C12 *)

\* the overview response is one the extraction rule rejects: a status
\* outside 2xx, a body that is no array of the expected shape, or a missing
\* signature or validUntil
Rejected(resp) ==
    \/ resp.transport = "error"
    \/ resp.status \notin 200..299
    \/ resp.shape # "array2"
    \/ Falsy(resp.signature)
    \/ Falsy(resp.validUntil)

\* C12: on the step that takes a rejected overview response, the mint
\* returns [null, null, null] to getBacklinks (it does not throw), nothing
\* is saved and the cache file is left as it was.
C12_RejectedMintIsAbsent ==
    [][\A c \in Calls :
          (/\ calls[c].pc = "awaitMint"
           /\ calls'[c] # calls[c]
           /\ Rejected(calls'[c].mintResp)) =>
             /\ calls'[c].pc = "mintReturned"
             /\ Triple(calls'[c].signature, calls'[c].validUntil,
                       calls'[c].overviewData) = Absent
             /\ calls'[c].saved = "none"
             /\ cacheFile' = cacheFile]_vars

\* C12 witness: a body with a signature and no validUntil came back while
\* the file held an expired entry of the domain; the mint returned
\* [null, null, null] and the entry is still the one that was found.
C12_Witness ==
    \E c \in Calls :
        /\ calls[c].pc = "mintReturned"
        /\ calls[c].mintResp.transport = "ok"
        /\ calls[c].mintResp.status = 200
        /\ calls[c].mintResp.shape = "array2"
        /\ calls[c].mintResp.signature = "sig-2"
        /\ calls[c].mintResp.validUntil = Null
        /\ calls[c].signature = Null
        /\ FoundExpired(calls[c])
        /\ Holds(cacheFile, calls[c].subject, "sig-1", IsoStrings[1],
                 "overview-1")

-----------------------------------------------------------------------------
(* C13 *)

\* getSignatureAndOverview has returned a credential to getBacklinks, which
\* has not resumed yet
MintJustReturned(rec) ==
    /\ rec.pc = "mintReturned"
    /\ ~Falsy(rec.signature) /\ ~Falsy(rec.validUntil)

\* C13 as stated: at the moment the mint returns a credential, the file
\* entry of the domain has the signature, validUntil and payload of the
\* returned credential.
C13_PersistedBeforeReturn ==
    \A c \in Calls :
        MintJustReturned(calls[c]) =>
            Holds(cacheFile, calls[c].subject, calls[c].signature,
                  calls[c].validUntil, calls[c].overviewData)

\* C13 amended: at the moment the mint returns a credential,
\* saveSignatureToCache has been called and has returned; when it returned
\* true the file entry of the domain has the signature, validUntil and
\* payload of the returned credential; when it returned false the mint
\* returns the credential all the same, and the step left the file as it was
\* or unparsable.
C13_SaveAttemptedBeforeReturn ==
    /\ [](\A c \in Calls :
             MintJustReturned(calls[c]) =>
                /\ calls[c].saved \in {"true", "false"}
                /\ calls[c].saved = "true" =>
                      Holds(cacheFile, calls[c].subject, calls[c].signature,
                            calls[c].validUntil, calls[c].overviewData))
    /\ [][\A c \in Calls :
             (/\ calls[c].pc = "awaitMint"
              /\ MintJustReturned(calls'[c])
              /\ calls'[c].saved = "false") =>
                cacheFile' \in {cacheFile, Opened}]_vars

\* C13 witness: the mint has just returned the sig-2 credential, the save
\* returned true, and the file that was unparsable or missing before now
\* holds that credential as its only entry.
C13_Witness ==
    \E c \in Calls :
        /\ MintJustReturned(calls[c])
        /\ calls[c].saved = "true"
        /\ calls[c].found = "absent"
        /\ calls[c].signature = "sig-2"
        /\ DOMAIN cacheFile.data = {calls[c].subject}
        /\ Holds(cacheFile, calls[c].subject, "sig-2", calls[c].validUntil,
                 "overview-2")

-----------------------------------------------------------------------------
(* C14 *)

\* the file offers no entry for the domain: it is missing, is unparsable,
\* parses to no object, or has no key for the domain
NoEntry(file, domain) ==
    file.kind # "object" \/ domain \notin DOMAIN file.data

\* C14: for a file that offers no entry for the domain, load returns
\* [null, null, null]; a getBacklinks call made on such a file goes on to its
\* solve with nothing loaded; no error leaves the load (a getBacklinks call
\* that found no entry ends in an error only from its credential step or
\* after its list request was sent); and the step of any getBacklinks call
\* that runs the load leaves the file as it was.
C14_LoadNeverRaises ==
    /\ [](\A domain \in Domains :
             NoEntry(cacheFile, domain) =>
                loadSignatureFromCache(cacheFile, domain, now) = Absent)
    /\ [](\A c \in Calls :
             (/\ calls[c].op = "getBacklinks"
              /\ calls[c].found = "absent"
              /\ calls[c].pc = "thrown") =>
                \/ calls[c].error \in {"token", "signature"}
                \/ calls[c].listReq # NoReq)
    /\ [][\A c \in Calls :
             (Invoked(c) /\ calls'[c].op = "getBacklinks") =>
                /\ cacheFile' = cacheFile
                /\ calls'[c].pc \in {"solving", "awaitList"}
                /\ NoEntry(cacheFile, calls'[c].subject) =>
                      /\ calls'[c].pc = "solving"
                      /\ calls'[c].found = "absent"
                      /\ calls'[c].signature = Null
                      /\ calls'[c].validUntil = Null
                      /\ calls'[c].listReq = NoReq]_vars

\* C14 witness: getBacklinks was called on an unparsable file and is in its
\* solve, with nothing loaded, the file still unparsable.
C14_Witness ==
    \E c \in Calls :
        /\ calls[c].op = "getBacklinks"
        /\ calls[c].pc = "solving"
        /\ calls[c].found = "absent"
        /\ calls[c].signature = Null
        /\ cacheFile.kind = "corrupt"

-----------------------------------------------------------------------------
(* C15 *)

\* saveSignatureToCache returned false to the mint of this call
SaveFailed(rec) == rec.op = "getBacklinks" /\ rec.saved = "false"

\* C15: when saveSignatureToCache returned false, the mint has returned the
\* minted credential all the same; getBacklinks then sends the list request
\* with that credential; the call fails only if the list request itself
\* fails (bad status, transport failure, a body that cannot be formatted),
\* and otherwise returns the minted overview with the formatted backlinks.
C15_WriteFailureTolerated ==
    /\ [](\A c \in Calls :
             SaveFailed(calls[c]) =>
                /\ ~Falsy(calls[c].signature) /\ ~Falsy(calls[c].validUntil)
                /\ calls[c].pc \in {"mintReturned", "awaitList", "returned",
                                     "thrown"}
                /\ calls[c].pc # "mintReturned" =>
                      /\ calls[c].nData = 1
                      /\ calls[c].listReq =
                            ListPayload(calls[c].signature, calls[c].validUntil,
                                        calls[c].subject)
                /\ calls[c].pc = "thrown" =>
                      calls[c].error \in {"status", "unexpected"}
                /\ calls[c].pc = "returned" =>
                      calls[c].result.overview = calls[c].overviewData)
    /\ [][\A c \in Calls :
             (/\ SaveFailed(calls[c])
              /\ calls[c].pc = "mintReturned"
              /\ calls'[c] # calls[c]) =>
                calls'[c].pc = "awaitList"]_vars

\* C15 witness: the save returned false, the file does not hold the minted
\* sig-2 credential, and getBacklinks has returned the minted overview with
\* two backlinks.
C15_Witness ==
    \E c \in Calls :
        /\ SaveFailed(calls[c])
        /\ calls[c].pc = "returned"
        /\ calls[c].signature = "sig-2"
        /\ ~Holds(cacheFile, calls[c].subject, "sig-2", calls[c].validUntil,
                  "overview-2")
        /\ calls[c].result.overview = "overview-2"
        /\ Len(calls[c].result.backlinks) = 2

-----------------------------------------------------------------------------
(* C16 *)

\* the subjects whose entries a save can read from the file
Readable(file) == IF file.kind = "object" THEN DOMAIN file.data ELSE {}

\* C16: on the step on which saveSignatureToCache returns true for domain S,
\* the file becomes an object whose entry for S is exactly the new
\* signature, validUntil, payload and the time of the save; its keys are S
\* and the keys that were readable before; and every other readable entry
\* is as it was.  A missing or unparsable file has no readable key.
C16_SaveMergesAndReplaces ==
    [][\A c \in Calls :
          (/\ calls[c].pc = "awaitMint"
           /\ calls'[c].pc = "mintReturned"
           /\ calls'[c].saved = "true") =>
             LET S == calls'[c].subject
             IN  /\ cacheFile'.kind = "object"
                 /\ DOMAIN cacheFile'.data = Readable(cacheFile) \cup {S}
                 /\ cacheFile'.data[S] =
                       CacheEntry(calls'[c].signature, calls'[c].validUntil,
                                  calls'[c].overviewData, now)
                 /\ \A d \in Readable(cacheFile) \ {S} :
                       cacheFile'.data[d] = cacheFile.data[d]]_vars

\* C16 witness: a save for a domain whose expired entry was found has
\* returned true; the entry is now the sig-2 credential with the time of the
\* save, and the other domain still has its entry of time 0.
C16_Witness ==
    \E c \in Calls :
        /\ calls[c].pc = "mintReturned"
        /\ calls[c].saved = "true"
        /\ FoundExpired(calls[c])
        /\ cacheFile.kind = "object"
        /\ DOMAIN cacheFile.data = Domains
        /\ cacheFile.data[calls[c].subject] =
              CacheEntry("sig-2", calls[c].validUntil, "overview-2", now)
        /\ now > 0
        /\ \E d \in Domains \ {calls[c].subject} :
              cacheFile.data[d] = CacheEntry("sig-1", Null, "overview-1", 0)

-----------------------------------------------------------------------------
(* C17 *)

\* the file holds an entry for the domain
HasEntry(file, domain) == file.kind = "object" /\ domain \in DOMAIN file.data

\* C17: once the file holds an entry for a domain it holds one after every
\* step of the program: no load, save, mint or executor step takes an entry
\* away.
C17_EntriesNeverDeleted ==
    [][\A domain \in Domains :
          HasEntry(cacheFile, domain) => HasEntry(cacheFile', domain)]_vars

-----------------------------------------------------------------------------
(* C18 *)

\* what the load of a getBacklinks call that has just been entered returned
Loaded(rec) ==
    IF rec.pc = "awaitList"
    THEN Triple(rec.signature, rec.validUntil, rec.overviewData)
    ELSE Absent

\* C18: a load that this process runs while another process is inside its
\* save (between the open and the end of its fs.writeFileSync) returns what
\* it would return on the complete file of before the save or on the
\* complete file of after the save.
C18_SaveIsAtomic ==
    [][\A c \in Calls :
          (/\ Invoked(c)
           /\ calls'[c].op = "getBacklinks"
           /\ peer.pc = "writing") =>
             Loaded(calls'[c]) \in
                {loadSignatureFromCache(peer.before, calls'[c].subject, now),
                 loadSignatureFromCache(peer.content, calls'[c].subject, now)}]_vars

-----------------------------------------------------------------------------
(* C19 *)

\* the three executors that hold no credential
Uncached == {"getKeywordIdeas", "getKeywordDifficulty", "checkTraffic"}

\* a call of one of them is in the slot
UncachedCall(rec) == rec.op \in Uncached /\ rec.pc # "idle"

\* C19: a call of getKeywordIdeas, getKeywordDifficulty or checkTraffic
\* enters the solve at once, whatever the cache file holds for its subject;
\* it sends one createTask (none without an API key) and never a second; it
\* loads nothing, mints nothing and saves nothing; its data request follows
\* the one solve; and no step of such a call, successful or not, changes the
\* cache file.
C19_UncachedExecutors ==
    /\ [](\A c \in Calls :
             UncachedCall(calls[c]) =>
                /\ calls[c].found = "none"
                /\ calls[c].saved = "none"
                /\ calls[c].nMint = 0
                /\ calls[c].signature = Null
                /\ calls[c].listReq = NoReq
                /\ calls[c].nCreate = IF HasApiKey(apiKey) THEN 1 ELSE 0
                /\ calls[c].nData <= 1
                /\ calls[c].pc \in {"solving", "awaitData", "returned", "thrown"}
                /\ calls[c].pc = "awaitData" =>
                      calls[c].nData = 1 /\ ~Falsy(calls[c].token))
    /\ [][\A c \in Calls :
             (UncachedCall(calls'[c]) /\ calls'[c] # calls[c]) =>
                /\ cacheFile' = cacheFile
                /\ Invoked(c) => calls'[c].pc = "solving"]_vars

\* C19 witness: checkTraffic for a domain has finished its one solve and
\* sent its data request while the file holds a credential of that domain
\* that load would return.
C19_Witness ==
    \E c \in Calls :
        /\ calls[c].op = "checkTraffic"
        /\ calls[c].pc = "awaitData"
        /\ calls[c].nCreate = 1
        /\ calls[c].found = "none"
        /\ LoadReturnsCredential(calls[c].subject)

-----------------------------------------------------------------------------
(* C20 *)

\* C20: a getBacklinks call that found an expired entry goes through its
\* steps in one order.  While it solves, no overview and no list request has
\* been sent, and a poll is sent only after createTask.  The overview request
\* is sent when the solve returned a token, after createTask and at least
\* one poll.  When the mint returns a credential the save has been called,
\* and no list request has been sent yet.  The list request is sent on the
\* step on which getBacklinks resumes from the mint, and carries the
\* signature and validUntil of the overview response.  The call returns only
\* from the answer to its list request, with the minted overview.
C20_ExpiredEntryOrdering ==
    /\ [](\A c \in Calls :
             FoundExpired(calls[c]) =>
                LET rec == calls[c]
                IN  /\ rec.pc \in {"solving", "awaitMint", "mintReturned"} =>
                          rec.nData = 0 /\ rec.listReq = NoReq
                    /\ rec.pc = "solving" =>
                          /\ rec.nMint = 0 /\ rec.saved = "none"
                          /\ rec.solver.nPoll > 0 => rec.nCreate = 1
                    /\ rec.pc = "awaitMint" =>
                          /\ rec.nCreate = 1 /\ rec.nMint = 1
                          /\ rec.saved = "none"
                          /\ ~Falsy(rec.token)
                    /\ MintJustReturned(rec) => rec.saved # "none"
                    /\ rec.pc \in {"awaitList", "returned"} =>
                          /\ rec.nCreate = 1 /\ rec.nMint = 1 /\ rec.nData = 1
                          /\ rec.saved # "none"
                          /\ rec.listReq = ListPayload(rec.signature,
                                               rec.validUntil, rec.subject)
                    /\ rec.pc = "returned" =>
                          rec.result.overview = rec.overviewData)
    /\ [][\A c \in Calls :
             (FoundExpired(calls[c]) /\ calls'[c] # calls[c]
                 /\ FoundExpired(calls'[c]) /\ ~Invoked(c)) =>
                /\ calls'[c].pc = "awaitMint" =>
                      /\ calls[c].pc = "solving"
                      /\ calls[c].solver.nPoll >= 1
                /\ calls'[c].pc = "mintReturned" => calls[c].pc = "awaitMint"
                /\ calls'[c].pc = "awaitList" =>
                      /\ calls[c].pc = "mintReturned"
                      /\ calls'[c].listReq.signature =
                            calls[c].mintResp.signature
                      /\ calls'[c].listReq.validUntil =
                            calls[c].mintResp.validUntil
                /\ calls'[c].pc = "returned" => calls[c].pc = "awaitList"]_vars

\* C20 witness: the expired sig-1 entry was found at 01:00; the call solved,
\* minted sig-2 valid until 02:00, saved it, sent the list request with
\* sig-2 and 02:00, and returned the minted overview with two backlinks.
C20_Witness ==
    \E c \in Calls :
        /\ FoundExpired(calls[c])
        /\ now = 3600
        /\ calls[c].pc = "returned"
        /\ calls[c].nCreate = 1 /\ calls[c].nMint = 1 /\ calls[c].nData = 1
        /\ calls[c].saved = "true"
        /\ calls[c].listReq = ListPayload("sig-2", IsoStrings[2], calls[c].subject)
        /\ Holds(cacheFile, calls[c].subject, "sig-2", IsoStrings[2],
                 "overview-2")
        /\ calls[c].result.overview = "overview-2"
        /\ Len(calls[c].result.backlinks) = 2

-----------------------------------------------------------------------------
(* C21 *)

\* the body is an array of at least two elements whose first is "Ok"
OkArray(resp) == resp.shape = "array2" /\ resp.tag = "Ok"

TagChecked == {"getKeywordDifficulty", "checkTraffic"}

\* C21: whenever the answer to the data request of getKeywordDifficulty or
\* checkTraffic is not an array of at least two elements whose first element
\* is "Ok", the executor raises and returns no result, normalized or other;
\* when that answer came with status 200 (so that the body is looked at),
\* the error raised is the invalid-response error.
C21_TagIsFirmContract ==
    [][\A c \in Calls : \A resp \in DataResponses(calls[c].op) :
          (/\ calls[c].op \in TagChecked
           /\ DataResponse(c, resp)
           /\ ~OkArray(resp)) =>
              /\ calls'[c].pc = "thrown"
              /\ calls'[c].result = NoResult
              /\ (resp.transport = "ok" /\ resp.status = 200) =>
                    calls'[c].error = "format"]_vars

\* C21 witness: a keyword-difficulty call whose one data request was
\* answered ended with the invalid-response error and without a result.
C21_Witness ==
    \E c \in Calls :
        /\ calls[c].op = "getKeywordDifficulty"
        /\ calls[c].pc = "thrown"
        /\ calls[c].error = "format"
        /\ calls[c].nData = 1
        /\ calls[c].result = NoResult

-----------------------------------------------------------------------------
(* C22 *)

\* the request was answered with status 200, so that the body is normalized
Answered200(resp) == resp.transport = "ok" /\ resp.status = 200

\* C22: for every body the list endpoint or the ideas endpoint answers with
\* (status 200), including one whose backlinks or results field is present
\* but no array, the normalizer returns a list and the executor returns:
\* it does not fail with an error.
C22_ShapeMismatchesSwallowed ==
    [][\A c \in Calls :
          /\ \A resp \in ListResponses :
                (ListResponse(c, resp) /\ Answered200(resp)) =>
                    calls'[c].pc = "returned"
          /\ \A resp \in DataResponses(calls[c].op) :
                (/\ calls[c].op = "getKeywordIdeas"
                 /\ DataResponse(c, resp)
                 /\ Answered200(resp)) =>
                    calls'[c].pc = "returned"]_vars

-----------------------------------------------------------------------------
(* C23 *)

\* the body is no array, has fewer than two elements, or its second element
\* has no topBacklinks.backlinks
NoTopBacklinks(body) == body.shape # "array2" \/ body.kind = "missing"

\* C23: when the list request is answered (status 200) with a body that has
\* no topBacklinks, is no array or has fewer than two elements, getBacklinks
\* does not raise: it returns {overview, backlinks: []} where overview is
\* the overview of the credential the list request was sent with.
C23_MissingBacklinksIsEmptyList ==
    [][\A c \in Calls : \A resp \in ListResponses :
          (/\ ListResponse(c, resp)
           /\ Answered200(resp)
           /\ NoTopBacklinks(resp.body)) =>
              /\ calls'[c].pc = "returned"
              /\ calls'[c].result.backlinks = <<>>
              /\ calls'[c].result.overview # Null
              /\ calls'[c].result.overview =
                    Overview(calls[c].listReq.signature)]_vars

\* C23 witness: a getBacklinks call served from the cache has returned an
\* empty list of backlinks with the overview stored beside sig-1.
C23_Witness ==
    \E c \in Calls :
        /\ FromCache(calls[c])
        /\ calls[c].pc = "returned"
        /\ calls[c].listReq.signature = "sig-1"
        /\ calls[c].result = [overview |-> Overview("sig-1"), backlinks |-> <<>>]

-----------------------------------------------------------------------------
(* C24 *)

\* both groups of the payload are lists of ideas (a group that is missing
\* is the empty list)
ListsReceived(data) ==
    data.allIdeas.kind # "object" /\ data.questionIdeas.kind # "object"

\* the output entry stands for the received idea: same keyword and country,
\* or their defaults
StandsFor(entry, idea) ==
    /\ entry.value.keyword =
          (IF idea.keyword = <<>> THEN "No keyword" ELSE idea.keyword[1])
    /\ entry.value.country =
          (IF idea.country = <<>> THEN "-" ELSE idea.country[1])

\* C24: the output of the keyword-ideas normalization has one entry per
\* received idea (its length is the number of allIdeas results plus the
\* number of questionIdeas results), every entry labelled "keyword ideas"
\* precedes every entry labelled "question ideas", and within each group
\* the entries are in the order received.
C24_IdeasGroupOrder ==
    [][\A c \in Calls : \A resp \in DataResponses(calls[c].op) :
          (/\ calls[c].op = "getKeywordIdeas"
           /\ DataResponse(c, resp)
           /\ Answered200(resp)
           /\ resp.shape = "array2"
           /\ ListsReceived(resp.payload)) =>
              LET all == resp.payload.allIdeas.results
                  questions == resp.payload.questionIdeas.results
                  out == calls'[c].result.ideas
              IN  /\ calls'[c].pc = "returned"
                  /\ Len(out) = Len(all) + Len(questions)
                  /\ \A i, j \in 1..Len(out) :
                        (/\ out[i].label = "keyword ideas"
                         /\ out[j].label = "question ideas") => i < j
                  /\ \A i \in 1..Len(all) :
                        /\ out[i].label = "keyword ideas"
                        /\ StandsFor(out[i], all[i])
                  /\ \A j \in 1..Len(questions) :
                        /\ out[Len(all) + j].label = "question ideas"
                        /\ StandsFor(out[Len(all) + j], questions[j])]_vars

\* C24 witness: a keyword-ideas call has returned four entries, two keyword
\* ideas (the one without fields first) and then two question ideas.
C24_Witness ==
    \E c \in Calls :
        /\ calls[c].op = "getKeywordIdeas"
        /\ calls[c].pc = "returned"
        /\ Len(calls[c].result.ideas) = 4
        /\ calls[c].result.ideas[1] =
              [label |-> "keyword ideas", value |-> simplifiedIdea(BareIdea)]
        /\ calls[c].result.ideas[2].value.keyword = "seo tips"
        /\ calls[c].result.ideas[3] =
              [label |-> "question ideas", value |-> simplifiedIdea(QuestionIdea)]
        /\ calls[c].result.ideas[4].label = "question ideas"

-----------------------------------------------------------------------------
(* C25 *)

\* the SERP entries received (none when the payload has no serp.results)
SerpEntries(kdData) ==
    IF kdData.serp.kind = "array" THEN kdData.serp.results ELSE <<>>

\* the entry is tagged "organic"
TaggedOrganic(item) == item.content # <<>> /\ item.content[1] = "organic"

\* the link of the entry is present: ["Some", linkData]
LinkPresent(item) ==
    /\ item.content # <<>>
    /\ Len(item.content[2].link) = 2
    /\ item.content[2].link[1] = "Some"

\* the positions of the input entries that the filter keeps
Kept(items) ==
    {i \in 1..Len(items) : TaggedOrganic(items[i]) /\ LinkPresent(items[i])}

\* the k-th kept position, counted in input order
KeptAt(items, k) ==
    CHOOSE i \in Kept(items) : Cardinality({j \in Kept(items) : j <= i}) = k

BaseFields == {"title", "url", "position"}

MetricFields ==
    {"domainRating", "urlRating", "traffic", "keywords", "topKeyword", "topVolume"}

-----------------------------------------------------------------------------
(* C26 *)

ListKeys == {"traffic_history", "top_pages", "top_countries", "top_keywords"}

\* the figure of the payload's traffic object, or 0 when the figure or the
\* whole object is absent
FigureOrZero(trafficData, field) ==
    IF trafficData.traffic = <<>> THEN 0
    ELSE IF trafficData.traffic[1][field] = <<>> THEN 0
    ELSE trafficData.traffic[1][field][1]

-----------------------------------------------------------------------------
(* C27 *)

\* the error the controller layer receives from the call is of this kind
\* and carries this status
Receives(rec, kind, status) ==
    rec.pc = "thrown" /\ rec.error = kind /\ rec.errorStatus = status

\* the response came with a status other than 200
BadStatus(resp) == resp.transport = "ok" /\ resp.status # 200

-----------------------------------------------------------------------------
(* C28 *)

\* getCapsolverToken is running for the call
Solving(rec) == rec.pc = "solving" /\ rec.solver.pc # "returned"

\* getCapsolverToken has returned to the executor (the executor has not yet
\* resumed)
Solved(rec) == rec.pc = "solving" /\ rec.solver.pc = "returned"

\* the poll response ends the polling: "ready", "failed" or an errorId
Terminal(resp) ==
    resp.transport = "ok" /\
    (resp.status \in {"ready", "failed"} \/ resp.errorId # 0)

\* C28: when every request to the solving service is answered or fails
\* and every delay elapses, each call of getCapsolverToken returns, a token
\* or null, having sent at most one createTask request and at most 30
\* getTaskResult requests; a "ready" or "failed" poll response and the
\* time-out after the 30th pending response end the polling, and after its
\* return the call sends nothing more.
C28_SolveTerminates ==
    /\ \A c \in Sequential : Solving(calls[c]) ~> Solved(calls[c])
    /\ [](\A c \in Calls :
            /\ calls[c].nCreate <= 1
            /\ calls[c].solver.nPoll <= maxAttempts
            /\ Solved(calls[c]) =>
                  calls[c].solver.token \in {Null, "", "token-1"})
    /\ [][\A c \in Calls :
            /\ \A resp \in PollResponses :
                  (PollResponse(c, resp) /\ Terminal(resp)) =>
                      Solved(calls'[c])
            /\ (/\ calls[c].pc = "solving"
                 /\ calls[c].solver.pc = "awaitPoll"
                 /\ calls[c].solver.attempts = maxAttempts - 1
                 /\ calls'[c] # calls[c]) =>
                      Solved(calls'[c])
            /\ Solved(calls[c]) => ~Solving(calls'[c])]_vars

\* C28 witness: the call has returned null after one createTask request
\* and 30 getTaskResult requests that were all answered "processing".
C28_Witness ==
    \E c \in Calls :
        /\ Solved(calls[c])
        /\ calls[c].solver.token = Null
        /\ calls[c].nCreate = 1
        /\ calls[c].solver.nPoll = maxAttempts
        /\ calls[c].solver.attempts = maxAttempts
        /\ calls[c].solver.last = PollResp("ok", "processing", 0, Null)

-----------------------------------------------------------------------------
(* C29 *)

\* the createTask request was answered without a task identifier
OmitsTaskId(resp) == resp.transport = "ok" /\ resp.taskId = Null

\* C29: when the createTask response omits the task identifier,
\* getCapsolverToken returns null at once: it starts no delay and sends no
\* getTaskResult request.
C29_NoTaskIdNoPoll ==
    [][\A c \in Calls : \A resp \in CreateTaskResponses :
          (CreateTaskResponse(c, resp) /\ OmitsTaskId(resp)) =>
              /\ Solved(calls'[c])
              /\ calls'[c].solver.token = Null
              /\ calls'[c].solver.nSleep = 0
              /\ calls'[c].solver.nPoll = 0]_vars

\* C29 witness: with an API key set, the call has sent its createTask
\* request and getCapsolverToken has returned null without a delay or a
\* getTaskResult request.
C29_Witness ==
    \E c \in Calls :
        /\ apiKey = "CAP-key"
        /\ Solved(calls[c])
        /\ calls[c].nCreate = 1
        /\ calls[c].solver.token = Null
        /\ calls[c].solver.nSleep = 0
        /\ calls[c].solver.nPoll = 0

-----------------------------------------------------------------------------
(* C30 *)

\* two getBacklinks calls for different subjects are or were in flight
\* together (the second slot is called while the first is running)
OverlappingPair(c1, c2) ==
    /\ c1 # c2
    /\ calls[c1].op = "getBacklinks" /\ calls[c2].op = "getBacklinks"
    /\ calls[c1].pc # "idle" /\ calls[c2].pc # "idle"
    /\ calls[c1].subject # calls[c2].subject

\* the cache file holds the credential the call minted, whole
HoldsMinted(file, rec) ==
    /\ ~Falsy(rec.signature) /\ ~Falsy(rec.validUntil)
    /\ Holds(file, rec.subject, rec.signature, rec.validUntil,
             rec.overviewData)

\* C30 as stated: when getBacklinks(S1) and getBacklinks(S2) with S1 # S2
\* overlap inside one process and both mints have succeeded, the cache file
\* holds the complete minted entry for S1 and the complete minted entry for
\* S2, in every interleaving of their suspend points.
C30_NoLostUpdate ==
    \A c1, c2 \in Calls :
        (/\ OverlappingPair(c1, c2)
         /\ Minted(calls[c1]) /\ Minted(calls[c2])) =>
            /\ HoldsMinted(cacheFile, calls[c1])
            /\ HoldsMinted(cacheFile, calls[c2])

\* C30, amended: when getBacklinks(S1) and getBacklinks(S2) with S1 # S2
\* overlap inside one process, both mints have succeeded and both writes of
\* the cache file have succeeded, the cache file holds the complete minted
\* entry for S1 and the complete minted entry for S2, in every interleaving
\* of their suspend points.
C30_NoLostUpdateWhenWritten ==
    \A c1, c2 \in Calls :
        (/\ OverlappingPair(c1, c2)
         /\ calls[c1].saved = "true" /\ calls[c2].saved = "true") =>
            /\ HoldsMinted(cacheFile, calls[c1])
            /\ HoldsMinted(cacheFile, calls[c2])

\* C30 witness: the call for a.com minted sig-1 and the call for b.com,
\* started while the first was running, minted sig-2; both have returned
\* and the cache file holds both entries.
C30_Witness ==
    /\ OverlappingPair(1, 2)
    /\ calls[1].pc = "returned" /\ calls[2].pc = "returned"
    /\ calls[1].subject = "a.com" /\ calls[2].subject = "b.com"
    /\ calls[1].saved = "true" /\ calls[2].saved = "true"
    /\ Holds(cacheFile, "a.com", "sig-1", IsoStrings[1], Overview("sig-1"))
    /\ Holds(cacheFile, "b.com", "sig-2", IsoStrings[2], Overview("sig-2"))

-----------------------------------------------------------------------------
(* C31 *)

\* two getBacklinks calls for the same subject are or were in flight
\* together, and each found no valid entry for the subject when it read
\* the cache file
SameSubjectMisses(c1, c2) ==
    /\ c1 # c2
    /\ calls[c1].op = "getBacklinks" /\ calls[c2].op = "getBacklinks"
    /\ calls[c1].pc # "idle" /\ calls[c2].pc # "idle"
    /\ calls[c1].subject = calls[c2].subject
    /\ calls[c1].found # "valid" /\ calls[c2].found # "valid"

\* the call is over
Completed(rec) == rec.pc \in {"returned", "thrown"}

\* C31 as stated: when two getBacklinks(S) calls overlap inside one process
\* and neither found a valid entry for S, each performs its own solve and
\* its own mint, and after both complete the entry of S in the cache file
\* is wholly the credential of one of the two mints.
C31_EntryIsOneOfTwoMints ==
    \A c1, c2 \in Calls :
        (/\ SameSubjectMisses(c1, c2)
         /\ Completed(calls[c1]) /\ Completed(calls[c2])) =>
            /\ calls[c1].nCreate = 1 /\ calls[c2].nCreate = 1
            /\ calls[c1].nMint = 1 /\ calls[c2].nMint = 1
            /\ \/ HoldsMinted(cacheFile, calls[c1])
               \/ HoldsMinted(cacheFile, calls[c2])

\* C31, amended: when two getBacklinks(S) calls overlap inside one process
\* and neither found a valid entry for S, each performs its own solve (two
\* createTask requests in total) and, when its solve yields a token, its
\* own mint.  A save that succeeds sets the entry of S to the whole
\* credential of the saving call and nothing else changes the file, so
\* that when both mints and both writes of the file have succeeded the
\* entry of S is wholly the credential saved last, never a mix of the two;
\* and each call sends its list request with the credential it minted
\* itself.
C31_EachMintsItsOwn ==
    /\ [](\A c1, c2 \in Calls :
            SameSubjectMisses(c1, c2) =>
                /\ calls[c1].nCreate = 1 /\ calls[c2].nCreate = 1
                /\ (calls[c1].saved = "true" /\ calls[c2].saved = "true") =>
                      \/ HoldsMinted(cacheFile, calls[c1])
                      \/ HoldsMinted(cacheFile, calls[c2]))
    /\ [][\A c \in Calls :
            /\ (SolveReturns(c) /\ ~Falsy(calls[c].solver.token)) =>
                  /\ calls'[c].pc = "awaitMint"
                  /\ calls'[c].nMint = 1
            /\ (/\ calls[c].pc = "awaitMint"
                 /\ calls'[c].pc = "mintReturned"
                 /\ calls'[c].saved = "true") =>
                  Holds(cacheFile', calls[c].subject,
                        calls'[c].mintResp.signature,
                        calls'[c].mintResp.validUntil,
                        calls'[c].mintResp.data)
            /\ (calls[c].pc = "mintReturned" /\ calls'[c].pc = "awaitList") =>
                  /\ calls'[c].listReq.signature = calls[c].mintResp.signature
                  /\ calls'[c].listReq.validUntil = calls[c].mintResp.validUntil]_vars
    /\ [][(\A c \in Calls : ~(/\ calls[c].pc = "awaitMint"
                               /\ calls'[c].pc = "mintReturned")) =>
            cacheFile' = cacheFile]_vars

\* C31 witness: two calls for a.com were in flight together, both missed
\* the cache, both solved and minted (sig-1 until 01:00 in slot 1, sig-2
\* until 02:00 in slot 2) and both sent their list request with their own
\* credential; slot 1 saved last, and the file holds sig-1 whole.
C31_Witness ==
    /\ SameSubjectMisses(1, 2)
    /\ calls[1].subject = "a.com"
    /\ calls[1].pc = "returned" /\ calls[2].pc = "returned"
    /\ calls[1].nCreate = 1 /\ calls[2].nCreate = 1
    /\ calls[1].nMint = 1 /\ calls[2].nMint = 1
    /\ calls[1].saved = "true" /\ calls[2].saved = "true"
    /\ calls[1].listReq = ListPayload("sig-1", IsoStrings[1], "a.com")
    /\ calls[2].listReq = ListPayload("sig-2", IsoStrings[2], "a.com")
    /\ Holds(cacheFile, "a.com", "sig-1", IsoStrings[1], Overview("sig-1"))

-----------------------------------------------------------------------------
(* C32 *)

\* the list request fails: it is rejected or answered with another status
\* than 200
ListFails(resp) == resp.transport = "error" \/ resp.status # 200

\* the call minted a credential, saved it, sent its list request and ended
\* with an error
FailedAfterSave(rec) ==
    /\ rec.op = "getBacklinks"
    /\ rec.saved = "true"
    /\ rec.listReq # NoReq
    /\ rec.pc = "thrown"

\* C32: if getBacklinks(S) minted and saved a credential and its list
\* request then fails, the call raises an error and the cache file still
\* holds the minted entry for S; the next getBacklinks(S) before validUntil
\* makes no createTask and no overview request and sends its list request
\* with that credential.
C32_FailedListKeepsCredential ==
    /\ [][\A c \in Calls : \A resp \in ListResponses :
            (/\ ListResponse(c, resp)
             /\ ListFails(resp)
             /\ calls[c].saved = "true") =>
                /\ FailedAfterSave(calls'[c])
                /\ HoldsMinted(cacheFile', calls'[c])]_vars
    /\ [][\A c \in Calls :
            (SecondCallInWindow(c) /\ FailedAfterSave(calls[c])) =>
                ServedWith(calls'[c], calls[c].signature, calls[c].validUntil,
                           calls[c].overviewData)]_vars

\* C32 witness: a call minted sig-2 valid until 02:00, saved it, and its
\* list request was answered with status 204; the call has ended with the
\* status error, the file holds the sig-2 entry and it is 01:00.
C32_Witness ==
    \E c \in Calls :
        /\ FailedAfterSave(calls[c])
        /\ calls[c].raised = McpError("status", 204)
        /\ calls[c].signature = "sig-2"
        /\ calls[c].validUntil = IsoStrings[2]
        /\ HoldsMinted(cacheFile, calls[c])
        /\ now = 3600

-----------------------------------------------------------------------------
(* C33 *)

\* a "ready" poll response whose solution token is missing or empty
ReadyWithoutToken(resp) ==
    /\ resp.transport = "ok"
    /\ resp.status = "ready"
    /\ resp.token \in {Null, ""}

\* the call is waiting for the answer to a request that carries
\* `captcha: token` (the overview request or a data request)
CaptchaRequestSent(rec) == rec.pc \in {"awaitMint", "awaitData"}

\* C33: when the poll answered "ready" carries no solution token,
\* getCapsolverToken returns no token; the executor that called it then
\* fails with its verification-token error and sends nothing to the
\* platform; and no request is ever sent to the platform with an empty or
\* missing captcha value.
C33_ReadyWithoutTokenFails ==
    /\ [][\A c \in Calls :
            /\ \A resp \in PollResponses :
                  (PollResponse(c, resp) /\ ReadyWithoutToken(resp)) =>
                      /\ Solved(calls'[c])
                      /\ calls'[c].solver.token \in {Null, ""}
            /\ (SolveReturns(c) /\ ReadyWithoutToken(calls[c].solver.last)) =>
                  /\ Receives(calls'[c], "token", 500)
                  /\ calls'[c].nMint = 0
                  /\ calls'[c].nData = 0]_vars
    /\ [](\A c \in Calls :
            CaptchaRequestSent(calls[c]) => calls[c].token = "token-1")

\* C33 witness: the first poll of a keyword-ideas call was answered
\* "ready" with an empty token, and getCapsolverToken has returned that
\* empty value to the executor.
C33_Witness ==
    \E c \in Calls :
        /\ calls[c].op = "getKeywordIdeas"
        /\ Solved(calls[c])
        /\ calls[c].solver.last = PollResp("ok", "ready", 0, "")
        /\ calls[c].solver.token = ""
        /\ calls[c].solver.nPoll = 1

-----------------------------------------------------------------------------
(* C34 *)

\* the overview request answered with status 200 and an array of more than
\* one element whose second element carries a non-empty signature and a
\* non-empty validUntil
WellFormedMint(resp) ==
    /\ resp.transport = "ok"
    /\ resp.status = 200
    /\ resp.shape = "array2"
    /\ resp.signature \notin {Null, ""}
    /\ resp.validUntil \notin {Null, ""}

\* C34: the mint succeeds (returns the credential of the response) exactly
\* when the overview request is answered with status 200 and an array of
\* more than one element whose second element carries a non-empty
\* signature and a non-empty validUntil, whatever the first element of the
\* array is: such a response is accepted and saved also when its tag is
\* not "Ok" (the file holds the credential when the save returns true),
\* and any other response yields [null, null, null] and no save.
C34_MintAcceptance ==
    [][\A c \in Calls :
          (calls[c].pc = "awaitMint" /\ calls'[c].pc = "mintReturned") =>
             LET resp == calls'[c].mintResp
                 returned == Triple(calls'[c].signature, calls'[c].validUntil,
                                    calls'[c].overviewData)
             IN  /\ WellFormedMint(resp) <=> returned # Absent
                 /\ WellFormedMint(resp) =>
                       /\ returned = Triple(resp.signature, resp.validUntil,
                                            resp.data)
                       /\ calls'[c].saved \in {"true", "false"}
                       /\ calls'[c].saved = "true" =>
                             Holds(cacheFile', calls[c].subject, resp.signature,
                                   resp.validUntil, resp.data)
                 /\ ~WellFormedMint(resp) =>
                       /\ calls'[c].saved = "none"
                       /\ cacheFile' = cacheFile]_vars

\* C34 witness: the overview request was answered 200 with
\* ["Error", {sig-2, 02:00}]; the mint has returned sig-2 and the file
\* holds it.
C34_Witness ==
    \E c \in Calls :
        /\ calls[c].pc = "mintReturned"
        /\ calls[c].mintResp = MintResp("ok", 200, "array2", "Error", "sig-2",
                                       IsoStrings[2])
        /\ calls[c].signature = "sig-2"
        /\ calls[c].saved = "true"
        /\ Holds(cacheFile, calls[c].subject, "sig-2", IsoStrings[2],
                 Overview("sig-2"))

-----------------------------------------------------------------------------
(* C35 *)

\* the body is [_, {topBacklinks: {backlinks: [...]}}]
WellShapedList(body) == body.shape = "array2" /\ body.kind = "array"

BacklinkFields ==
    {"anchor", "domainRating", "title", "urlFrom", "urlTo", "edu", "gov"}

\* '' / 0 / false, by the type of the field in the Backlink interface
TypeDefault(field) ==
    IF field = "domainRating" THEN 0
    ELSE IF field \in {"edu", "gov"} THEN FALSE
    ELSE ""

\* C35: when the list request is answered (status 200) with a well-shaped
\* body, getBacklinks returns one backlink per raw backlink in the order
\* received, and every returned backlink has exactly the fields anchor,
\* domainRating, title, urlFrom, urlTo, edu and gov, each equal to the raw
\* value when the raw item has it and to '' / 0 / false (by type) when it
\* has not.
C35_BacklinksKeepLengthAndOrder ==
    [][\A c \in Calls : \A resp \in ListResponses :
          (/\ ListResponse(c, resp)
           /\ Answered200(resp)
           /\ WellShapedList(resp.body)) =>
              LET raw == resp.body.items
                  out == calls'[c].result.backlinks
              IN  /\ calls'[c].pc = "returned"
                  /\ Len(out) = Len(raw)
                  /\ \A i \in 1..Len(raw) :
                        /\ DOMAIN out[i] = BacklinkFields
                        /\ \A field \in BacklinkFields :
                              out[i][field] =
                                 IF raw[i][field] = <<>>
                                 THEN TypeDefault(field)
                                 ELSE raw[i][field][1]]_vars

\* C35 witness: getBacklinks has returned three backlinks for the raw list
\* (bare, mixed, full): all defaults first, the full item last.
C35_Witness ==
    \E c \in Calls :
        /\ calls[c].op = "getBacklinks"
        /\ calls[c].pc = "returned"
        /\ Len(calls[c].result.backlinks) = 3
        /\ calls[c].result.backlinks[1] =
              [anchor |-> "", domainRating |-> 0, title |-> "", urlFrom |-> "",
               urlTo |-> "", edu |-> FALSE, gov |-> FALSE]
        /\ calls[c].result.backlinks[2] =
              [anchor |-> "", domainRating |-> 12, title |-> "",
               urlFrom |-> "https://y.net/q", urlTo |-> "", edu |-> FALSE,
               gov |-> TRUE]
        /\ calls[c].result.backlinks[3] =
              [anchor |-> "home", domainRating |-> 57, title |-> "Home page",
               urlFrom |-> "https://x.org/p", urlTo |-> "https://a.com/",
               edu |-> TRUE, gov |-> FALSE]

-----------------------------------------------------------------------------
(* C36 *)

\* the call in rec never got past the controller: no executor of the
\* service has run for it
ServiceUntouched(rec) ==
    /\ rec.solver = NoSolver
    /\ rec.token = Null
    /\ rec.nCreate = 0
    /\ rec.nMint = 0
    /\ rec.nData = 0
    /\ rec.listReq = NoReq
    /\ rec.found = "none"
    /\ rec.saved = "none"
    /\ rec.error = ""
    /\ rec.result = NoResult

\* C36: when a controller function is called with its required parameter
\* empty or missing (domain for getBacklinks, keyword for getKeywordIdeas
\* and getKeywordDifficulty, domainOrUrl for getTraffic), the service is not
\* called: no challenge solve is started, no platform request is sent, the
\* credential store is neither read nor written, and the outcome is the
\* controller's error path with the 'is required' Error; no executor is
\* ever at work on an empty or missing parameter.
C36_ValidationGuardsPipeline ==
    /\ [][\A c \in Calls, op \in Ops : \A param \in {Null, ""} :
             ControllerCall(c, op, param) =>
                /\ calls'[c].pc = "rejected"
                /\ calls'[c].op = op
                /\ calls'[c].raised = Foreign("required")
                /\ ServiceUntouched(calls'[c])
                /\ cacheFile' = cacheFile]_vars
    /\ [](\A c \in Calls :
             (calls[c].pc # "idle" /\ calls[c].subject \in {Null, ""}) =>
                calls[c].pc = "rejected" /\ ServiceUntouched(calls[c]))

\* C36 witness: getKeywordDifficulty was called through the controller
\* with an empty keyword while the file holds a credential; the call was
\* refused with nothing solved, sent, read or saved.
C36_Witness ==
    \E c \in Calls :
        /\ calls[c].pc = "rejected"
        /\ calls[c].op = "getKeywordDifficulty"
        /\ calls[c].subject = ""
        /\ calls[c].raised = Foreign("required")
        /\ ServiceUntouched(calls[c])
        /\ cacheFile.kind = "object"
        /\ DOMAIN cacheFile.data # {}

=============================================================================
